---- MODULE Spec2Model ----
(***************************************************************************)
(* A model of the toolbox library: the Graph store and its mutations, the  *)
(* shortest-path algorithms that consume it (with the PriorityQueue they   *)
(* use), the SegmentTree and the UnionFind, the graph traversals and       *)
(* orderings, Kruskal's algorithm, the FenwickTree, the searches, the      *)
(* longest-common-subsequence functions and the Trie.                      *)
(* Python dicts are functions whose DOMAIN is the key set, Python lists    *)
(* are sequences.  A call that raises keeps the assignments it made        *)
(* before the raising statement.                                           *)
(***************************************************************************)
EXTENDS Integers, Sequences, FiniteSets, TLC

(* ------------------------------ bounds --------------------------------- *)

\* node identifiers offered to the graph mutations are 1..NumNodes
NumNodes == 2

\* cap on the total number of neighbor-list entries (mutation specification)
MaxEntries == 2

Nodes == 1..NumNodes

\* number of nodes offered to the shortest-path specification
PathNumNodes == 3

\* the elements offered to UnionFind are 1..UFNumElems
UFNumElems == 4

\* longest array a SegmentTree is built from
SegMaxLen == 3

\* array values are 0..SegMaxValue
SegMaxValue == 2

\* cap on the number of neighbor-list entries (shortest-path specification)
PathMaxEntries == 3

\* edge weights offered to add_edge by the mutation specification
Weights == {1, 2}

(* ------------------------------ state ---------------------------------- *)

VARIABLES
    adj_list,      \* Graph.adj_list : node -> list of neighbors
    weights,       \* Graph.weights  : (u, v) -> weight
    old_adj,       \* adj_list as it was when the last call started
    old_weights,   \* weights as they were when the last call started
    call,          \* the last call: operation, arguments, raised or not
    distances,     \* what the last dijkstra call returned
    astar,         \* what the last a_start_search call returned
    seg,           \* a SegmentTree: its fields n, func, default, size, tree
    seg_array,     \* the array the SegmentTree stands for
    seg_call,      \* the last SegmentTree.update call
    uf_parent,     \* UnionFind.parent
    uf_rank,       \* UnionFind.rank
    uf_groups,     \* the groups made by the union calls so far
    uf_call,       \* the last UnionFind call and what it returned
    ret,           \* what the last traversal / ordering call returned
    k_pc,          \* kruskal_mst: "idle", "loop" (in the for loop) or "done"
    k_edges,       \* kruskal_mst: the edge tuples the loop has not reached yet
    k_parent,      \* kruskal_mst: the local dict parent
    k_rank,        \* kruskal_mst: the local dict rank
    k_mst,         \* kruskal_mst: the list mst
    fen,           \* a FenwickTree: its fields size and tree
    fen_added,     \* per index, the sum of the values added there so far
    fen_call,      \* the last FenwickTree.update call
    pq_data,       \* PriorityQueue._data
    pq_key,        \* PriorityQueue.key, by name
    pq_held,       \* item -> how many copies the queue holds
    pq_call,       \* the last PriorityQueue call and what it returned
    es_call,       \* the last search call: array, target, result
    ts_call,       \* the last ternary_search_discrete call
    lcs_call,      \* the last lsc_sequence call: the strings and what it returned
    trie,          \* a Trie: node (the path from the root) -> is_end_of_word
    trie_words,    \* the words inserted so far
    trie_call      \* the last Trie call

graphVars == <<adj_list, weights, old_adj, old_weights, call>>

pathVars == <<distances, astar>>

segVars == <<seg, seg_array, seg_call>>

ufVars == <<uf_parent, uf_rank, uf_groups, uf_call>>

algoVars == <<ret>>

kruskalVars == <<k_pc, k_edges, k_parent, k_rank, k_mst>>

fenVars == <<fen, fen_added, fen_call>>

pqVars == <<pq_data, pq_key, pq_held, pq_call>>

searchVars == <<es_call>>

\* the ternary search, the dynamic programming and the Trie
lateVars == <<ts_call, lcs_call, trie, trie_words, trie_call>>

vars == <<graphVars, pathVars, segVars, ufVars, algoVars, kruskalVars, fenVars, pqVars, searchVars, lateVars>>

\* the empty dict
EmptyDict == [x \in {} |-> 0]

\* d with key k set to val (d[k] = val)
DictSet(d, k, val) == [x \in (DOMAIN d) \cup {k} |-> IF x = k THEN val ELSE d[x]]

\* d without key k
DictDel(d, k) == [x \in (DOMAIN d) \ {k} |-> d[x]]

\* [k for k in lst if k != x]
Without(lst, x) == SelectSeq(lst, LAMBDA k : k # x)

\* the elements of a list
Elems(lst) == {lst[i] : i \in 1..Len(lst)}

NoCall == [op |-> "none", u |-> 0, v |-> 0, w |-> 0, bidirectional |-> FALSE, raised |-> FALSE]

CallRec(op, u, v, w, b, r) ==
    [op |-> op, u |-> u, v |-> v, w |-> w, bidirectional |-> b, raised |-> r]

\* the result slot of a_start_search before any call
NoPath == [found |-> FALSE, path |-> <<>>, heuristic |-> "none"]

\* the result slot of the traversals before any call; none marks a call that
\* returned None
NoReturn == [raised |-> FALSE, none |-> FALSE, value |-> <<>>]

AlgoIdle == ret = NoReturn

KruskalIdle ==
    /\ k_pc = "idle"
    /\ k_edges = {}
    /\ k_parent = EmptyDict
    /\ k_rank = EmptyDict
    /\ k_mst = <<>>

\* count is the number of update calls made so far
NoFenCall == [index |-> 0, value |-> 0, count |-> 0]

FenIdle ==
    /\ fen = [size |-> 0, tree |-> <<0>>]
    /\ fen_added = <<>>
    /\ fen_call = NoFenCall

\* popped lists the items popped since the last push
NoPQCall == [op |-> "none", item |-> <<>>, raised |-> FALSE, popped |-> <<>>]

PQIdle ==
    /\ pq_data = <<>>
    /\ pq_key = "identity"
    /\ pq_held = EmptyDict
    /\ pq_call = NoPQCall

NoSearch == [op |-> "none", arr |-> <<>>, target |-> 0, result |-> 0]

SearchIdle == es_call = NoSearch

NoTernary == [op |-> "none", func |-> "none", left |-> 0, right |-> 0, result |-> 0]

TernaryIdle == ts_call = NoTernary

NoLcs == [op |-> "none", a |-> <<>>, b |-> <<>>, raised |-> FALSE, result |-> <<>>]

LcsIdle == lcs_call = NoLcs

NoTrieCall == [op |-> "none", word |-> <<>>]

\* Trie.__init__: the root alone, not the end of a word
TrieIdle ==
    /\ trie = [node \in {<<>>} |-> FALSE]
    /\ trie_words = {}
    /\ trie_call = NoTrieCall

LateIdle == TernaryIdle /\ LcsIdle /\ TrieIdle

(* ------------------------------ Graph ---------------------------------- *)

\* Graph.__init__
GraphInit ==
    /\ adj_list = EmptyDict
    /\ weights = EmptyDict
    /\ old_adj = EmptyDict
    /\ old_weights = EmptyDict
    /\ call = NoCall

\* if x not in adj_list: adj_list[x] = []; adj_list[x].append(y)
AppendNeighbor(a, x, y) ==
    DictSet(a, x, (IF x \in DOMAIN a THEN a[x] ELSE <<>>) \o <<y>>)

\* the state a call leaves behind: the dicts and whether the call raised
Outcome(a, wt, r) == [adj |-> a, wts |-> wt, raised |-> r]

\* a call's outcome becomes the state; the state it started from is kept
Commit(op, u, v, w, b, out) ==
    /\ old_adj' = adj_list
    /\ old_weights' = weights
    /\ adj_list' = out.adj
    /\ weights' = out.wts
    /\ call' = CallRec(op, u, v, w, b, out.raised)

\* body of Graph.add_edge
AddEdgeEffect(a, wt, u, v, w, bidirectional) ==
    LET a1 == AppendNeighbor(a, u, v)
        w1 == DictSet(wt, <<u, v>>, w)
    IN  IF bidirectional
        THEN Outcome(AppendNeighbor(a1, v, u), DictSet(w1, <<v, u>>, w), FALSE)
        ELSE Outcome(a1, w1, FALSE)

\* body of Graph.remove_edge; dict.pop(key) raises KeyError on a missing key
RemoveEdgeEffect(a, wt, u, v, bidirectional) ==
    IF u \notin DOMAIN a \/ v \notin DOMAIN a
    THEN Outcome(a, wt, FALSE)
    ELSE LET a1 == [a EXCEPT ![u] = Without(@, v)]
         IN  IF <<u, v>> \notin DOMAIN wt
             THEN Outcome(a1, wt, TRUE)
             ELSE LET w1 == DictDel(wt, <<u, v>>)
                  IN  IF ~bidirectional
                      THEN Outcome(a1, w1, FALSE)
                      ELSE LET a2 == [a1 EXCEPT ![v] = Without(@, u)]
                           IN  IF <<v, u>> \notin DOMAIN w1
                               THEN Outcome(a2, w1, TRUE)
                               ELSE Outcome(a2, DictDel(w1, <<v, u>>), FALSE)

\* the weight entries that do not mention u ("if u not in k")
WeightsWithout(wt, u) ==
    [k \in {p \in DOMAIN wt : p[1] # u /\ p[2] # u} |-> wt[k]]

\* a variant of remove_node that leaves the weights as they are
RemoveNodeKeepWeights(a, wt, u) ==
    IF u \notin DOMAIN a
    THEN Outcome(a, wt, TRUE)
    ELSE LET a1 == DictDel(a, u)
         IN  Outcome([k \in DOMAIN a1 |-> Without(a1[k], u)], wt, FALSE)

\* body of Graph.remove_node; adj_list.pop(u) raises KeyError on a missing key
RemoveNodeEffect(a, wt, u) ==
    IF u \notin DOMAIN a
    THEN Outcome(a, wt, TRUE)
    ELSE LET a1 == DictDel(a, u)
         IN  Outcome([k \in DOMAIN a1 |-> Without(a1[k], u)], WeightsWithout(wt, u), FALSE)

\* add_edge that forgets the weight of the mirrored edge
AddEdgeNoMirrorWeight(u, v, w, bidirectional) ==
    LET out == AddEdgeEffect(adj_list, weights, u, v, w, bidirectional)
    IN  Commit("add_edge", u, v, w, bidirectional,
               [out EXCEPT !.wts = DictSet(weights, <<u, v>>, w)])

\* Graph.add_edge
AddEdge(u, v, w, bidirectional) ==
    Commit("add_edge", u, v, w, bidirectional,
           AddEdgeEffect(adj_list, weights, u, v, w, bidirectional))

\* remove_edge that ignores its bidirectional argument
RemoveEdgeBothWays(u, v, bidirectional) ==
    Commit("remove_edge", u, v, 0, bidirectional,
           RemoveEdgeEffect(adj_list, weights, u, v, TRUE))

\* Graph.remove_edge
RemoveEdge(u, v, bidirectional) ==
    Commit("remove_edge", u, v, 0, bidirectional,
           RemoveEdgeEffect(adj_list, weights, u, v, bidirectional))

\* remove_node written with adj_list.pop(u, None)
RemoveNodeIgnoreMissing(u) ==
    LET out == RemoveNodeEffect(adj_list, weights, u)
    IN  Commit("remove_node", u, 0, 0, FALSE, [out EXCEPT !.raised = FALSE])

\* remove_node that purges only the weight entries leaving u
RemoveNodeKeepIncoming(u) ==
    LET out == RemoveNodeEffect(adj_list, weights, u)
    IN  Commit("remove_node", u, 0, 0, FALSE,
               IF out.raised THEN out
               ELSE [out EXCEPT !.wts = [k \in {p \in DOMAIN weights : p[1] # u} |-> weights[k]]])

\* Graph.remove_node
RemoveNode(u) ==
    Commit("remove_node", u, 0, 0, FALSE, RemoveNodeEffect(adj_list, weights, u))

\* adj_list.get(k, [])
ListOf(a, k) == IF k \in DOMAIN a THEN a[k] ELSE <<>>

\* Graph.nodes, as the set it iterates over
GraphNodes(a) == (DOMAIN a) \cup UNION {Elems(a[k]) : k \in DOMAIN a}

RECURSIVE SumLen(_, _)
SumLen(a, ks) ==
    IF ks = {} THEN 0
    ELSE LET k == CHOOSE x \in ks : TRUE IN Len(a[k]) + SumLen(a, ks \ {k})

\* number of neighbor-list entries in the whole graph
Entries(a) == SumLen(a, DOMAIN a)

(* ----------------------------- SegmentTree ---------------------------- *)

\* float("inf"), the default that goes with min
SegInfinity == 1000000

\* the operators a SegmentTree is built with
SegFuncs == {"sum", "min"}

\* func(x, y): lambda x, y: x + y on numbers, the builtin min, or
\* lambda x, y: x + y on strings (concatenation)
Apply(f, x, y) ==
    CASE f = "sum" -> x + y
      [] f = "min" -> IF y < x THEN y ELSE x
      [] f = "concat" -> x \o y

\* the default passed along with func: its identity
DefaultOf(f) ==
    CASE f = "sum" -> 0
      [] f = "min" -> SegInfinity
      [] f = "concat" -> <<>>

\* self.tree[i], the list being indexed from 0
At(tree, i) == tree[i + 1]

\* self.tree[i] = x
Put(tree, i, x) == [tree EXCEPT ![i + 1] = x]

\* __init__: while self.size < self.n: self.size <<= 1
RECURSIVE SizeFor(_, _)
SizeFor(size, n) == IF size < n THEN SizeFor(2 * size, n) ELSE size

\* build: for i in range(self.n): self.tree[self.size + i] = data[i]
RECURSIVE BuildLeaves(_, _, _, _)
BuildLeaves(tree, size, data, i) ==
    IF i < Len(data)
    THEN BuildLeaves(Put(tree, size + i, data[i + 1]), size, data, i + 1)
    ELSE tree

\* build: for i in range(self.size - 1, 0, -1): tree[i] = func(tree[2i], tree[2i+1])
RECURSIVE BuildInner(_, _, _)
BuildInner(tree, f, i) ==
    IF i > 0
    THEN BuildInner(Put(tree, i, Apply(f, At(tree, 2 * i), At(tree, 2 * i + 1))), f, i - 1)
    ELSE tree

\* SegmentTree(data, func, default)
SegNew(data, f, default) ==
    LET size == SizeFor(1, Len(data))
        blank == [i \in 1..(2 * size) |-> default]
    IN  [n |-> Len(data), func |-> f, default |-> default, size |-> size,
         tree |-> BuildInner(BuildLeaves(blank, size, data, 0), f, size - 1)]

\* a variant of the loop of update that stops after the parent of the leaf
UpdateParentOnly(tree, f, index) ==
    IF index > 1
    THEN LET up == index \div 2
         IN  Put(tree, up, Apply(f, At(tree, 2 * up), At(tree, 2 * up + 1)))
    ELSE tree

\* update: while index > 1: index >>= 1; tree[index] = func(children)
RECURSIVE UpdateAncestors(_, _, _)
UpdateAncestors(tree, f, index) ==
    IF index > 1
    THEN LET up == index \div 2
         IN  UpdateAncestors(Put(tree, up, Apply(f, At(tree, 2 * up), At(tree, 2 * up + 1))), f, up)
    ELSE tree

\* update that overwrites the leaf and leaves the ancestors stale
SegUpdateLeafOnly(t, index, value) ==
    [t EXCEPT !.tree = Put(t.tree, index + t.size, value)]

\* SegmentTree.update(index, value)
SegUpdate(t, index, value) ==
    [t EXCEPT !.tree = UpdateAncestors(Put(t.tree, index + t.size, value), t.func, index + t.size)]

\* query: the while loop, left and right already offset by size
RECURSIVE QueryLoop(_, _, _, _)
QueryLoop(t, left, right, result) ==
    IF left < right
    THEN LET r1 == IF left % 2 = 1 THEN Apply(t.func, result, At(t.tree, left)) ELSE result
             l1 == IF left % 2 = 1 THEN left + 1 ELSE left
             rt == IF right % 2 = 1 THEN right - 1 ELSE right
             r2 == IF right % 2 = 1 THEN Apply(t.func, r1, At(t.tree, rt)) ELSE r1
         IN  QueryLoop(t, l1 \div 2, rt \div 2, r2)
    ELSE result

\* SegmentTree.query(left, right)
SegQuery(t, left, right) == QueryLoop(t, left + t.size, right + t.size, t.default)

SegValues == 0..SegMaxValue

RECURSIVE SeqsUpTo(_, _)
SeqsUpTo(S, n) ==
    IF n = 0 THEN {<<>>}
    ELSE LET shorter == SeqsUpTo(S, n - 1)
         IN  shorter \cup {Append(q, x) : q \in {r \in shorter : Len(r) = n - 1}, x \in S}

\* the arrays a SegmentTree is built from
SegArrays == SeqsUpTo(SegValues, SegMaxLen)

NoUpdate == [op |-> "none", index |-> 0, value |-> 0]

\* the state after tree = SegmentTree(data, func, default)
SegBuilt(data, f) ==
    /\ seg = SegNew(data, f, DefaultOf(f))
    /\ seg_array = data
    /\ seg_call = NoUpdate

\* tree.update(index, value) with 0 <= index < N
DoSegUpdate ==
    \E index \in 0..(seg.n - 1), value \in SegValues :
        /\ seg' = SegUpdate(seg, index, value)
        /\ seg_array' = [seg_array EXCEPT ![index + 1] = value]
        /\ seg_call' = [op |-> "update", index |-> index, value |-> value]

(* ------------------------------ UnionFind ------------------------------ *)

\* find without the membership test: it registers the item anew on every call
UFFindAlwaysRegisters(p, r, item) ==
    [parent |-> DictSet(p, item, item), rank |-> DictSet(r, item, 0), result |-> item]

\* UnionFind.find(item) on the dicts p (parent) and r (rank): the dicts it
\* leaves and the representative it returns
RECURSIVE UFFind(_, _, _)
UFFind(p, r, item) ==
    IF item \notin DOMAIN p
    THEN [parent |-> DictSet(p, item, item), rank |-> DictSet(r, item, 0), result |-> item]
    ELSE IF p[item] # item
         THEN LET up == UFFind(p, r, p[item])
              IN  [parent |-> DictSet(up.parent, item, up.result),
                   rank |-> up.rank,
                   result |-> up.result]
         ELSE [parent |-> p, rank |-> r, result |-> p[item]]

\* union that links the items themselves instead of their representatives
UFUnionLinksItems(p, r, x, y) ==
    LET fx == UFFind(p, r, x)
        fy == UFFind(fx.parent, fx.rank, y)
        xroot == fx.result
        yroot == fy.result
    IN  IF xroot = yroot
        THEN [parent |-> fy.parent, rank |-> fy.rank]
        ELSE IF fy.rank[xroot] < fy.rank[yroot]
             THEN [parent |-> DictSet(fy.parent, x, y), rank |-> fy.rank]
             ELSE [parent |-> DictSet(fy.parent, y, x),
                   rank |-> IF fy.rank[xroot] = fy.rank[yroot]
                            THEN DictSet(fy.rank, xroot, fy.rank[xroot] + 1)
                            ELSE fy.rank]

\* UnionFind.union(x, y): the dicts it leaves
UFUnion(p, r, x, y) ==
    LET fx == UFFind(p, r, x)
        fy == UFFind(fx.parent, fx.rank, y)
        xroot == fx.result
        yroot == fy.result
    IN  IF xroot = yroot
        THEN [parent |-> fy.parent, rank |-> fy.rank]
        ELSE IF fy.rank[xroot] < fy.rank[yroot]
             THEN [parent |-> DictSet(fy.parent, xroot, yroot), rank |-> fy.rank]
             ELSE [parent |-> DictSet(fy.parent, yroot, xroot),
                   rank |-> IF fy.rank[xroot] = fy.rank[yroot]
                            THEN DictSet(fy.rank, xroot, fy.rank[xroot] + 1)
                            ELSE fy.rank]

UFElems == 1..UFNumElems

NoUFCall == [op |-> "none", x |-> 0, y |-> 0, result |-> 0]

\* UnionFind.__init__
UFInit ==
    /\ uf_parent = EmptyDict
    /\ uf_rank = EmptyDict
    /\ uf_groups = {}
    /\ uf_call = NoUFCall

\* the group x was put in by the unions so far: itself alone if none
GroupOf(groups, x) ==
    IF \E g \in groups : x \in g THEN CHOOSE g \in groups : x \in g ELSE {x}

\* uf.find(item)
DoFind ==
    \E item \in UFElems :
        LET f == UFFind(uf_parent, uf_rank, item)
        IN  /\ uf_parent' = f.parent
            /\ uf_rank' = f.rank
            /\ uf_call' = [op |-> "find", x |-> item, y |-> 0, result |-> f.result]
            /\ UNCHANGED uf_groups

\* uf.union(x, y)
DoUnion ==
    \E x \in UFElems, y \in UFElems :
        LET u == UFUnion(uf_parent, uf_rank, x, y)
            gx == GroupOf(uf_groups, x)
            gy == GroupOf(uf_groups, y)
        IN  /\ uf_parent' = u.parent
            /\ uf_rank' = u.rank
            /\ uf_groups' = (uf_groups \ {gx, gy}) \cup {gx \cup gy}
            /\ uf_call' = [op |-> "union", x |-> x, y |-> y, result |-> 0]

(* --------------------- specification: graph mutation ------------------- *)

DoAddEdge ==
    \E u \in Nodes, v \in Nodes, w \in Weights, b \in BOOLEAN :
        /\ Entries(adj_list) + (IF b THEN 2 ELSE 1) <= MaxEntries
        /\ AddEdge(u, v, w, b)

DoRemoveEdge == \E u \in Nodes, v \in Nodes, b \in BOOLEAN : RemoveEdge(u, v, b)

DoRemoveNode == \E u \in Nodes : RemoveNode(u)

\* the structures a specification does not exercise stay as constructed
SegIdle == SegBuilt(<<>>, "sum")

GraphIdle == GraphInit /\ distances = EmptyDict /\ astar = NoPath

\* the rest of the components, as constructed
RestIdle == AlgoIdle /\ KruskalIdle /\ FenIdle /\ PQIdle /\ SearchIdle /\ LateIdle

restVars == <<algoVars, kruskalVars, fenVars, pqVars, searchVars, lateVars>>

NextGraph ==
    \/ DoAddEdge /\ UNCHANGED <<pathVars, segVars, ufVars, restVars>>
    \/ DoRemoveEdge /\ UNCHANGED <<pathVars, segVars, ufVars, restVars>>
    \/ DoRemoveNode /\ UNCHANGED <<pathVars, segVars, ufVars, restVars>>

InitGraph == GraphIdle /\ SegIdle /\ UFInit /\ RestIdle

SpecGraph == InitGraph /\ [][NextGraph]_vars

(* ------------------------- claims: graph mutation ---------------------- *)

\* the last call was op and it returned normally
Returned(op) == call.op = op /\ ~call.raised

\* the dicts wt1 and wt2 agree on every key outside ks
SameOutside(wt1, wt2, ks) ==
    /\ (DOMAIN wt1) \ ks = (DOMAIN wt2) \ ks
    /\ \A k \in (DOMAIN wt1) \ ks : wt1[k] = wt2[k]

\* C4: remove_node(u) with u not an adjacency key completes without raising
\* and leaves adj_list and weights exactly as they were.
C4_RemoveAbsentNodeIsNoOp ==
    (call.op = "remove_node" /\ call.u \notin DOMAIN old_adj)
        => (~call.raised /\ adj_list = old_adj /\ weights = old_weights)

C6_RemovedNodeIsGone ==
    Returned("remove_node") =>
        /\ call.u \notin GraphNodes(adj_list)
        /\ call.u \notin DOMAIN adj_list
        /\ \A k \in DOMAIN adj_list : call.u \notin Elems(adj_list[k])
        /\ \A p \in DOMAIN weights : p[1] # call.u /\ p[2] # call.u

C6_Witness ==
    /\ Returned("remove_node")
    /\ \E k \in DOMAIN old_adj : k # call.u /\ call.u \in Elems(old_adj[k])
    /\ \E p \in DOMAIN old_weights : p[1] # call.u /\ p[2] = call.u
    /\ \E p \in DOMAIN old_weights : p[1] = call.u

\* C7: remove_edge(u, v) with bidirectional=True returns without raising and
\* afterwards v is not in u's neighbor list, u is not in v's neighbor list and
\* neither (u,v) nor (v,u) is a key of weights, whatever edges existed.
C7_RemoveEdgeRemovesAllEdges ==
    (call.op = "remove_edge" /\ call.bidirectional) =>
        /\ ~call.raised
        /\ call.v \notin Elems(ListOf(adj_list, call.u))
        /\ call.u \notin Elems(ListOf(adj_list, call.v))
        /\ <<call.u, call.v>> \notin DOMAIN weights
        /\ <<call.v, call.u>> \notin DOMAIN weights

\* the case C8 is about: remove_edge(u, v, bidirectional=False) on an existing
\* edge (u,v) between two adjacency keys
DirectedRemoval ==
    /\ call.op = "remove_edge"
    /\ ~call.bidirectional
    /\ call.u \in DOMAIN old_adj
    /\ call.v \in DOMAIN old_adj
    /\ <<call.u, call.v>> \in DOMAIN old_weights

\* what C8 says of the edge itself and of the other nodes
DirectedRemovalEffect ==
    /\ ~call.raised
    /\ DOMAIN adj_list = DOMAIN old_adj
    /\ adj_list[call.u] = Without(old_adj[call.u], call.v)
    /\ <<call.u, call.v>> \notin DOMAIN weights
    /\ \A k \in DOMAIN old_adj : k # call.u => adj_list[k] = old_adj[k]
    /\ SameOutside(weights, old_weights, {<<call.u, call.v>>})

\* what C8 says of the reverse edge
ReverseEdgeKept ==
    /\ call.u \in Elems(old_adj[call.v]) => call.u \in Elems(adj_list[call.v])
    /\ <<call.v, call.u>> \in DOMAIN old_weights =>
           /\ <<call.v, call.u>> \in DOMAIN weights
           /\ weights[<<call.v, call.u>>] = old_weights[<<call.v, call.u>>]

\* C8 as stated: on an existing edge between two keys,
\* remove_edge(u, v, bidirectional=False) removes every v from u's list and
\* the (u,v) weight, v's list still contains u, the (v,u) weight is still
\* present and all other lists and weights are untouched.
C8_DirectedRemovalKeepsReverse ==
    DirectedRemoval => (DirectedRemovalEffect /\ ReverseEdgeKept)

\* C8 amended: the same, the reverse edge being kept when u # v.
C8_DirectedRemovalKeepsReverseOfOtherNode ==
    DirectedRemoval =>
        (DirectedRemovalEffect /\ (call.u # call.v => ReverseEdgeKept))

C8_Witness ==
    /\ DirectedRemoval
    /\ call.u # call.v
    /\ call.v \in Elems(old_adj[call.u])
    /\ call.u \in Elems(adj_list[call.v])
    /\ <<call.v, call.u>> \in DOMAIN weights
    /\ ~call.raised

\* what C9 says add_edge(u, v, w, bidirectional) does for the edge (x, y):
\* x's entry exists and is its old list with y appended, weights[(x,y)] = w
EdgeAppended(x, y) ==
    /\ x \in DOMAIN adj_list
    /\ adj_list[x] = ListOf(old_adj, x) \o <<y>>
    /\ <<x, y>> \in DOMAIN weights
    /\ weights[<<x, y>>] = call.w

\* add_edge(u, u, w, bidirectional=True) appends u to its own list twice
LoopAppendedTwice ==
    /\ call.u \in DOMAIN adj_list
    /\ adj_list[call.u] = ListOf(old_adj, call.u) \o <<call.u, call.u>>
    /\ <<call.u, call.u>> \in DOMAIN weights
    /\ weights[<<call.u, call.u>>] = call.w

\* what C9 says of everything but the edge: no other key appears or
\* disappears, no other list and no other weight changes
AddEdgeFrame(touched, pairs) ==
    /\ (DOMAIN adj_list) \ touched = (DOMAIN old_adj) \ touched
    /\ \A k \in (DOMAIN old_adj) \ touched : adj_list[k] = old_adj[k]
    /\ SameOutside(weights, old_weights, pairs)

\* what C9 says of v when the edge is not bidirectional
MirrorUntouched ==
    /\ call.v \in DOMAIN adj_list <=> call.v \in DOMAIN old_adj
    /\ <<call.v, call.u>> \in DOMAIN weights <=> <<call.v, call.u>> \in DOMAIN old_weights
    /\ <<call.v, call.u>> \in DOMAIN old_weights =>
           weights[<<call.v, call.u>>] = old_weights[<<call.v, call.u>>]

AddEdgeBidirectionalEffect ==
    /\ ~call.raised
    /\ IF call.u = call.v
       THEN LoopAppendedTwice
       ELSE EdgeAppended(call.u, call.v) /\ EdgeAppended(call.v, call.u)
    /\ AddEdgeFrame({call.u, call.v}, {<<call.u, call.v>>, <<call.v, call.u>>})

AddEdgeDirectedEffect ==
    /\ ~call.raised
    /\ EdgeAppended(call.u, call.v)
    /\ AddEdgeFrame({call.u}, {<<call.u, call.v>>})

RECURSIVE TupleLess(_, _)
TupleLess(s, t) ==
    IF t = <<>> THEN FALSE
    ELSE IF s = <<>> THEN TRUE
    ELSE \/ Head(s) < Head(t)
         \/ Head(s) = Head(t) /\ TupleLess(Tail(s), Tail(t))

EntryLess(a, b) ==
    \/ a[1] < b[1]
    \/ a[1] = b[1] /\ TupleLess(a[2], b[2])

\* heapq._siftdown(heap, startpos, pos), positions counted from 0
RECURSIVE SiftDown(_, _, _, _)
SiftDown(heap, startpos, pos, newitem) ==
    IF pos > startpos
    THEN LET parentpos == (pos - 1) \div 2
             parent == heap[parentpos + 1]
         IN  IF EntryLess(newitem, parent)
             THEN SiftDown([heap EXCEPT ![pos + 1] = parent], startpos, parentpos, newitem)
             ELSE [heap EXCEPT ![pos + 1] = newitem]
    ELSE [heap EXCEPT ![pos + 1] = newitem]

\* heapq._siftup(heap, pos), positions counted from 0
RECURSIVE SiftUp(_, _, _, _)
SiftUp(heap, startpos, pos, newitem) ==
    LET endpos == Len(heap)
        childpos == 2 * pos + 1
        rightpos == childpos + 1
    IN  IF childpos < endpos
        THEN LET c == IF rightpos < endpos /\ ~EntryLess(heap[childpos + 1], heap[rightpos + 1])
                      THEN rightpos ELSE childpos
             IN  SiftUp([heap EXCEPT ![pos + 1] = heap[c + 1]], startpos, c, newitem)
        ELSE SiftDown([heap EXCEPT ![pos + 1] = newitem], startpos, pos, newitem)

\* heapq.heappush(heap, entry)
HeapPush(heap, entry) == SiftDown(Append(heap, entry), 0, Len(heap), entry)

\* a variant of heappop that moves the last entry to the root and leaves it
HeapPopNoSift(heap) ==
    LET lastelt == heap[Len(heap)]
        rest == SubSeq(heap, 1, Len(heap) - 1)
    IN  IF rest # <<>>
        THEN [entry |-> rest[1], data |-> [rest EXCEPT ![1] = lastelt]]
        ELSE [entry |-> lastelt, data |-> rest]

\* heapq.heappop(heap): the entry popped and the heap left
HeapPop(heap) ==
    LET lastelt == heap[Len(heap)]
        rest == SubSeq(heap, 1, Len(heap) - 1)
    IN  IF rest # <<>>
        THEN [entry |-> rest[1], data |-> SiftUp([rest EXCEPT ![1] = lastelt], 0, 0, lastelt)]
        ELSE [entry |-> lastelt, data |-> rest]

\* key=lambda x: x[0], the projection both algorithms pass
KeyFirst(item) == item[1]

\* PriorityQueue.push
PQPush(data, item) == HeapPush(data, <<KeyFirst(item), item>>)

\* PriorityQueue.pop: the item popped and the _data left
PQPop(data) ==
    LET p == HeapPop(data) IN [item |-> p.entry[2], data |-> p.data]

\* PriorityQueue.__init__ with a list of items
RECURSIVE PQNew(_, _)
PQNew(items, data) ==
    IF items = <<>> THEN data ELSE PQNew(Tail(items), PQPush(data, Head(items)))

\* PriorityQueue.is_empty()
PQIsEmpty(data) == data = <<>>

\* len(pq)
PQLen(data) == Len(data)

\* The truth value of the expression self.is_empty (no call): a bound
\* method object, which Python treats as true whatever _data holds.
IsEmptyMethodTruth(data) == TRUE

\* PriorityQueue.__bool__: "return not self.is_empty"
PQBool(data) == ~IsEmptyMethodTruth(data)

(* ---------------------------- shortest paths --------------------------- *)

\* float("inf")
Infinity == 1000000

\* d[k] of a defaultdict(lambda: float("inf")): the read of a missing key
\* stores the default
DefaultGet(d, k) == IF k \in DOMAIN d THEN d[k] ELSE Infinity

DefaultTouch(d, k) == IF k \in DOMAIN d THEN d ELSE DictSet(d, k, Infinity)

\* dijkstra: the for loop over the neighbors of current_node, from index i
RECURSIVE DijkstraRelax(_, _, _, _, _, _, _)
DijkstraRelax(a, wt, current_distance, current_node, i, dist, pq) ==
    LET nbrs == ListOf(a, current_node) IN
    IF i > Len(nbrs)
    THEN [dist |-> dist, pq |-> pq]
    ELSE LET v == nbrs[i]
             distance == current_distance + wt[<<current_node, v>>]
         IN  IF distance < DefaultGet(dist, v)
             THEN DijkstraRelax(a, wt, current_distance, current_node, i + 1,
                                DictSet(dist, v, distance), PQPush(pq, <<distance, v>>))
             ELSE DijkstraRelax(a, wt, current_distance, current_node, i + 1,
                                DefaultTouch(dist, v), pq)

\* dijkstra: the loop "while priority_queue:"
RECURSIVE DijkstraLoop(_, _, _, _, _)
DijkstraLoop(a, wt, dist, pq, visited) ==
    IF ~PQBool(pq)
    THEN dist
    ELSE LET p == PQPop(pq)
             current_distance == p.item[1]
             current_node == p.item[2]
         IN  IF current_node \in visited
             THEN DijkstraLoop(a, wt, dist, p.data, visited)
             ELSE LET r == DijkstraRelax(a, wt, current_distance, current_node, 1, dist, p.data)
                  IN  DijkstraLoop(a, wt, r.dist, r.pq, visited \cup {current_node})

\* dijkstra(graph, start): the distances dict returned
Dijkstra(a, wt, start) ==
    DijkstraLoop(a, wt, DictSet(EmptyDict, start, 0), PQNew(<<<<0, start>>>>, <<>>), {})

\* the heuristics offered to a_start_search
Heuristic(h, n, goal) ==
    CASE h = "zero" -> 0
      [] h = "hop" -> IF n = goal THEN 0 ELSE 1

\* reconstruct_path: the loop, total_path built back to front
RECURSIVE ReconstructLoop(_, _, _)
ReconstructLoop(came_from, current, total_path) ==
    IF current \in DOMAIN came_from
    THEN ReconstructLoop(came_from, came_from[current], total_path \o <<came_from[current]>>)
    ELSE total_path

\* total_path[::-1]
Reverse(lst) == [i \in 1..Len(lst) |-> lst[Len(lst) + 1 - i]]

\* reconstruct_path(came_from, current)
ReconstructPath(came_from, current) ==
    Reverse(ReconstructLoop(came_from, current, <<current>>))

\* a_start_search: the for loop over the neighbors of current_node, from
\* index i; st holds open_set, came_from, g_score, f_score and the queue
RECURSIVE AStarRelax(_, _, _, _, _, _, _)
AStarRelax(a, wt, h, goal, current_node, i, st) ==
    LET nbrs == ListOf(a, current_node) IN
    IF i > Len(nbrs)
    THEN st
    ELSE LET v == nbrs[i]
             g0 == DefaultTouch(st.g_score, current_node)
             tentative_g_score == DefaultGet(g0, current_node) + wt[<<current_node, v>>]
         IN  IF tentative_g_score < DefaultGet(g0, v)
             THEN LET f == tentative_g_score + Heuristic(h, v, goal)
                  IN  AStarRelax(a, wt, h, goal, current_node, i + 1,
                          [open_set |-> st.open_set \cup {v},
                           came_from |-> DictSet(st.came_from, v, current_node),
                           g_score |-> DictSet(g0, v, tentative_g_score),
                           f_score |-> DictSet(st.f_score, v, f),
                           pq |-> IF v \notin st.open_set
                                  THEN PQPush(st.pq, <<f, v>>) ELSE st.pq])
             ELSE AStarRelax(a, wt, h, goal, current_node, i + 1,
                          [st EXCEPT !.g_score = DefaultTouch(g0, v)])

\* a_start_search: the loop "while priority_queue:" and the final return
RECURSIVE AStarLoop(_, _, _, _, _)
AStarLoop(a, wt, h, goal, st) ==
    IF ~PQBool(st.pq)
    THEN [found |-> FALSE, path |-> <<>>, heuristic |-> h]
    ELSE LET p == PQPop(st.pq)
             current_node == p.item[2]
         IN  IF current_node = goal
             THEN [found |-> TRUE, path |-> ReconstructPath(st.came_from, current_node),
                   heuristic |-> h]
             ELSE AStarLoop(a, wt, h, goal,
                      AStarRelax(a, wt, h, goal, current_node, 1,
                          [st EXCEPT !.pq = p.data,
                                     !.open_set = st.open_set \ {current_node}]))

\* a_start_search(graph, start, goal, heuristic): found = FALSE stands for None
AStarSearch(a, wt, start, goal, h) ==
    LET f0 == Heuristic(h, start, goal)
    IN  AStarLoop(a, wt, h, goal,
            [open_set |-> {start},
             came_from |-> EmptyDict,
             g_score |-> DictSet(EmptyDict, start, 0),
             f_score |-> DictSet(EmptyDict, start, f0),
             pq |-> PQNew(<<<<f0, start>>>>, <<>>)])

(* ---------------------- specification: shortest paths ------------------ *)

\* node identifiers offered to the shortest-path specification
PathNodes == 1..PathNumNodes

\* weights offered to add_edge by the shortest-path specification
PathWeights == {1, 5}

Heuristics == {"zero", "hop"}

\* a call that leaves the graph alone
Query(op, u, v) == Commit(op, u, v, 0, FALSE, Outcome(adj_list, weights, FALSE))

PathAddEdge ==
    \E u \in PathNodes, v \in PathNodes, w \in PathWeights, b \in BOOLEAN :
        /\ Entries(adj_list) + (IF b THEN 2 ELSE 1) <= PathMaxEntries
        /\ AddEdge(u, v, w, b)
        /\ distances' = EmptyDict
        /\ astar' = NoPath

RunDijkstra ==
    \E start \in PathNodes :
        /\ Query("dijkstra", start, 0)
        /\ distances' = Dijkstra(adj_list, weights, start)
        /\ astar' = NoPath

RunAStar ==
    \E start \in PathNodes, goal \in PathNodes, h \in Heuristics :
        /\ Query("a_start_search", start, goal)
        /\ astar' = AStarSearch(adj_list, weights, start, goal, h)
        /\ distances' = EmptyDict

NextPath ==
    \/ PathAddEdge /\ UNCHANGED <<segVars, ufVars, restVars>>
    \/ RunDijkstra /\ UNCHANGED <<segVars, ufVars, restVars>>
    \/ RunAStar /\ UNCHANGED <<segVars, ufVars, restVars>>

SpecPath == InitGraph /\ [][NextPath]_vars

(* ------------------------- claims: shortest paths ---------------------- *)

\* the smaller of two numbers
Min2(x, y) == IF x < y THEN x ELSE y

RECURSIVE MinOver(_, _)
MinOver(xs, least) ==
    IF xs = {} THEN least
    ELSE LET x == CHOOSE y \in xs : TRUE IN MinOver(xs \ {x}, Min2(x, least))

\* one round of relaxing every edge of the graph
RelaxAll(a, wt, d) ==
    [v \in DOMAIN d |->
        MinOver({d[u] + wt[<<u, v>>] :
                    u \in {x \in DOMAIN a : v \in Elems(a[x]) /\ d[x] < Infinity}},
                d[v])]

RECURSIVE RelaxRounds(_, _, _, _)
RelaxRounds(a, wt, d, n) ==
    IF n = 0 THEN d ELSE RelaxRounds(a, wt, RelaxAll(a, wt, d), n - 1)

\* the minimum total weight of a path from start to each node, Infinity
\* where there is none (weights are non-negative)
ShortestDist(a, wt, start) ==
    LET ns == GraphNodes(a) \cup {start}
    IN  RelaxRounds(a, wt, [n \in ns |-> IF n = start THEN 0 ELSE Infinity], Cardinality(ns))

\* C1: dijkstra(graph, start) maps every node reachable from start to the
\* minimum total weight of a path from start to it and reports infinity for
\* every unreachable node (so distance 2, not 5, over the edges (1,2,1),
\* (2,3,1), (1,3,5)).
C1_DijkstraShortestDistances ==
    call.op = "dijkstra" =>
        \A n \in GraphNodes(adj_list) \cup {call.u} :
            DefaultGet(distances, n) = ShortestDist(adj_list, weights, call.u)[n]

\* every consecutive pair of the path is an edge of the graph
IsWalk(a, path) ==
    \A i \in 1..(Len(path) - 1) :
        path[i] \in DOMAIN a /\ path[i + 1] \in Elems(a[path[i]])

RECURSIVE WalkWeight(_, _)
WalkWeight(wt, path) ==
    IF Len(path) < 2 THEN 0
    ELSE wt[<<path[1], path[2]>>] + WalkWeight(wt, Tail(path))

\* the minimum total weight of a path from start to goal, Infinity if none
DistTo(a, wt, start, goal) ==
    LET d == ShortestDist(a, wt, start)
    IN  IF goal \in DOMAIN d THEN d[goal] ELSE Infinity

\* h never overestimates the remaining cost to goal
Admissible(a, wt, h, goal) ==
    \A n \in GraphNodes(a) \cup {goal} :
        Heuristic(h, n, goal) <= DistTo(a, wt, n, goal)

\* C10: a_start_search returns, whenever goal is reachable from start
\* (start = goal included), a path from start to goal along edges of the
\* graph, of shortest total weight if the heuristic is admissible; it
\* returns None only when there is no path.
C10_AStarFindsShortestPath ==
    call.op = "a_start_search" =>
        LET best == DistTo(adj_list, weights, call.u, call.v)
        IN  /\ best < Infinity => astar.found
            /\ astar.found =>
                  /\ astar.path # <<>>
                  /\ astar.path[1] = call.u
                  /\ astar.path[Len(astar.path)] = call.v
                  /\ IsWalk(adj_list, astar.path)
                  /\ Admissible(adj_list, weights, astar.heuristic, call.v)
                         => WalkWeight(weights, astar.path) = best

(* ---------------------- specification: SegmentTree --------------------- *)

InitSeg == GraphIdle /\ UFInit /\ RestIdle /\ \E data \in SegArrays, f \in SegFuncs : SegBuilt(data, f)

NextSeg == DoSegUpdate /\ UNCHANGED <<graphVars, pathVars, ufVars, restVars>>

SpecSeg == InitSeg /\ [][NextSeg]_vars

(* -------------------------- claims: SegmentTree ------------------------ *)

\* the fold of f over arr[left .. right), positions counted from 0
RECURSIVE FoldSlice(_, _, _, _)
FoldSlice(f, arr, left, right) ==
    IF left >= right THEN DefaultOf(f)
    ELSE Apply(f, arr[left + 1], FoldSlice(f, arr, left + 1, right))

\* C2: after any sequence of update(index, value) calls, query(l, r) for
\* every 0 <= l <= r <= N equals the fold of the operator (sum with 0, min
\* with +infinity) over the slice [l, r) of the current array.
C2_QueryIsFoldOfSlice ==
    \A left \in 0..seg.n : \A right \in left..seg.n :
        SegQuery(seg, left, right) = FoldSlice(seg.func, seg_array, left, right)

C2_Witness ==
    /\ seg_call.op = "update"
    /\ seg.n = 3
    /\ seg_call.index = 1
    /\ seg_array = <<2, 1, 0>>
    /\ SegQuery(seg, 0, 3) = (IF seg.func = "sum" THEN 3 ELSE 0)
    /\ SegQuery(seg, 0, 2) = (IF seg.func = "sum" THEN 3 ELSE 1)

(* ----------------------- specification: UnionFind ---------------------- *)

InitUF == GraphIdle /\ SegIdle /\ UFInit /\ RestIdle

NextUF ==
    \/ DoFind /\ UNCHANGED <<graphVars, pathVars, segVars, restVars>>
    \/ DoUnion /\ UNCHANGED <<graphVars, pathVars, segVars, restVars>>

SpecUF == InitUF /\ [][NextUF]_vars

(* --------------------------- claims: UnionFind ------------------------- *)

\* what find(x) == find(y) evaluates to: the two calls, one after the other
SameRepresentative(x, y) ==
    LET fx == UFFind(uf_parent, uf_rank, x)
        fy == UFFind(fx.parent, fx.rank, y)
    IN  fx.result = fy.result

\* C3: after any sequence of union calls, find(x) == find(y) exactly when x
\* and y are connected through the unions performed so far, and an element
\* never unioned with anything keeps find(x) == x.
C3_UnionFindGroups ==
    /\ \A x \in UFElems, y \in UFElems :
           SameRepresentative(x, y) <=> y \in GroupOf(uf_groups, x)
    /\ \A x \in UFElems :
           GroupOf(uf_groups, x) = {x} => UFFind(uf_parent, uf_rank, x).result = x

C3_Witness ==
    /\ uf_call.op = "union"
    /\ \E g \in uf_groups : Cardinality(g) = 3
    /\ uf_call.x # uf_call.y
    /\ \E x \in UFElems : GroupOf(uf_groups, x) = {x} /\ x \in DOMAIN uf_parent
    /\ \E x \in UFElems : x \in DOMAIN uf_parent /\ uf_parent[x] # x

(* ----------------------------- kruskal_mst ----------------------------- *)

\* parent.get(u, u)
KGet(p, u) == IF u \in DOMAIN p THEN p[u] ELSE u

\* rank.get(u, 0)
RankGet(rk, u) == IF u \in DOMAIN rk THEN rk[u] ELSE 0

\* the local find(u): the dict parent after the call and the returned root
RECURSIVE KFind(_, _)
KFind(p, u) ==
    IF KGet(p, u) # u
    THEN LET r == KFind(p, p[u])
         IN  [parent |-> DictSet(r.parent, u, r.result), result |-> r.result]
    ELSE [parent |-> p, result |-> u]

\* the local union(u, v): the dicts parent and rank after the call
KUnion(p, rk, u, v) ==
    LET fu == KFind(p, u)
        fv == KFind(fu.parent, v)
        u_root == fu.result
        v_root == fv.result
        p2 == fv.parent
    IN  IF u_root = v_root THEN [parent |-> p2, rank |-> rk]
        ELSE IF RankGet(rk, u_root) < RankGet(rk, v_root)
        THEN [parent |-> DictSet(p2, u_root, v_root), rank |-> rk]
        ELSE [parent |-> DictSet(p2, v_root, u_root),
              rank |-> IF RankGet(rk, u_root) = RankGet(rk, v_root)
                       THEN DictSet(rk, u_root, RankGet(rk, u_root) + 1)
                       ELSE rk]

\* the set _graph_edges of tuples (u, v, w); a neighbor-only node has no list
KGraphEdges(a, wt) ==
    UNION {{<<u, ListOf(a, u)[i], wt[<<u, ListOf(a, u)[i]>>]>> : i \in 1..Len(ListOf(a, u))}
           : u \in GraphNodes(a)}

\* graph.weights[(u, v)] raises KeyError when an adjacency entry has no weight
KMissingWeight(a, wt) ==
    \E u \in GraphNodes(a) : \E i \in 1..Len(ListOf(a, u)) :
        <<u, ListOf(a, u)[i]>> \notin DOMAIN wt

\* a variant that walks the edge tuples in any order
KAnyNext(edges) == edges

\* sorted(list(set), key=weight): the set's iteration order is arbitrary and
\* the sort is stable, so the tuple the loop reaches next is any remaining
\* tuple of least weight
KSortedNext(edges) == {e \in edges : \A f \in edges : e[3] <= f[3]}

\* a variant that takes every edge tuple
KLoopBodyTakeAll(p, rk, mst, e) ==
    LET un == KUnion(p, rk, e[1], e[2])
    IN  [parent |-> un.parent, rank |-> un.rank, mst |-> Append(mst, e)]

\* one pass of the for loop over sorted_edges
KLoopBody(p, rk, mst, e) ==
    LET fu == KFind(p, e[1])
        fv == KFind(fu.parent, e[2])
    IN  IF fu.result # fv.result
        THEN LET un == KUnion(fv.parent, rk, e[1], e[2])
             IN  [parent |-> un.parent, rank |-> un.rank, mst |-> Append(mst, e)]
        ELSE [parent |-> fv.parent, rank |-> rk, mst |-> mst]

\* kruskal_mst up to the for loop
KruskalStart ==
    /\ k_pc = "idle"
    /\ k_parent' = EmptyDict
    /\ k_rank' = EmptyDict
    /\ k_mst' = <<>>
    /\ IF KMissingWeight(adj_list, weights)
       THEN k_pc' = "raised" /\ k_edges' = {}
       ELSE k_pc' = "loop" /\ k_edges' = KGraphEdges(adj_list, weights)

\* the for loop takes the next tuple of sorted_edges
KruskalStep ==
    /\ k_pc = "loop"
    /\ \E e \in KSortedNext(k_edges) :
        LET out == KLoopBody(k_parent, k_rank, k_mst, e)
        IN  /\ k_parent' = out.parent
            /\ k_rank' = out.rank
            /\ k_mst' = out.mst
            /\ k_edges' = k_edges \ {e}
    /\ k_pc' = "loop"

\* return mst_edges
KruskalReturn ==
    /\ k_pc = "loop"
    /\ k_edges = {}
    /\ k_pc' = "done"
    /\ UNCHANGED <<k_edges, k_parent, k_rank, k_mst>>

(* ---------------------- specification: kruskal_mst --------------------- *)

\* the undirected edges a graph is drawn from, in the order they are added
KPairs == <<<<1, 2>>, <<2, 3>>, <<3, 4>>, <<4, 1>>, <<1, 3>>>>

\* the weights of the drawn edges
KWeights == {1, 2}

\* most edges a drawn graph has
KMaxEdges == 4

\* the graph after add_edge(u, v, w, bidirectional=True) for every chosen pair
RECURSIVE KBuild(_, _)
KBuild(c, i) ==
    IF i = 0 THEN Outcome(EmptyDict, EmptyDict, FALSE)
    ELSE LET g == KBuild(c, i - 1)
         IN  IF c[i] = 0 THEN g
             ELSE AddEdgeEffect(g.adj, g.wts, KPairs[i][1], KPairs[i][2], c[i], TRUE)

KChoices ==
    {c \in [1..Len(KPairs) -> {0} \cup KWeights] :
        Cardinality({i \in 1..Len(KPairs) : c[i] # 0}) <= KMaxEdges}

InitKruskal ==
    /\ \E c \in KChoices :
        LET g == KBuild(c, Len(KPairs))
        IN  /\ adj_list = g.adj
            /\ weights = g.wts
            /\ old_adj = g.adj
            /\ old_weights = g.wts
    /\ call = NoCall
    /\ distances = EmptyDict
    /\ astar = NoPath
    /\ SegIdle /\ UFInit /\ AlgoIdle /\ KruskalIdle /\ FenIdle /\ PQIdle /\ SearchIdle /\ LateIdle

kruskalRest == <<graphVars, pathVars, segVars, ufVars, algoVars, fenVars, pqVars, searchVars, lateVars>>

NextKruskal ==
    \/ KruskalStart /\ UNCHANGED kruskalRest
    \/ KruskalStep /\ UNCHANGED kruskalRest
    \/ KruskalReturn /\ UNCHANGED kruskalRest

SpecKruskal == InitKruskal /\ [][NextKruskal]_vars

(* --------------------------- claims: kruskal_mst ----------------------- *)

\* the directed edges (u, v) of an adjacency list
DirEdges(a) == UNION {{<<u, a[u][i]>> : i \in 1..Len(a[u])} : u \in DOMAIN a}

\* E with every edge also reversed
Sym(E) == E \cup {<<e[2], e[1]>> : e \in E}

\* the nodes reachable from the set S along the edges E
RECURSIVE Closure(_, _)
Closure(E, S) ==
    LET T == S \cup {e[2] : e \in {f \in E : f[1] \in S}}
    IN  IF T = S THEN S ELSE Closure(E, T)

\* every node of V reaches every other one, edges read as undirected
Connected(V, E) == V # {} /\ \A v \in V : Closure(Sym(E), {v}) = V

\* the endpoints of the edges of a list, all but the one at position skip
PairsBut(mst, skip) == {<<mst[i][1], mst[i][2]>> : i \in (1..Len(mst)) \ {skip}}

\* no edge of the list closes a cycle: without it, its endpoints are apart
NoCycle(mst) ==
    \A i \in 1..Len(mst) :
        /\ mst[i][1] # mst[i][2]
        /\ mst[i][2] \notin Closure(Sym(PairsBut(mst, i)), {mst[i][1]})

\* no undirected edge occurs twice in the list
EachEdgeOnce(mst) ==
    \A i, j \in 1..Len(mst) :
        i # j => {mst[i][1], mst[i][2]} # {mst[j][1], mst[j][2]}

\* every tuple of the list is an edge of the graph with its weight
EdgesOfGraph(mst, wt) ==
    \A i \in 1..Len(mst) :
        /\ <<mst[i][1], mst[i][2]>> \in DOMAIN wt
        /\ wt[<<mst[i][1], mst[i][2]>>] = mst[i][3]

\* C11: on a connected graph with N nodes whose edges were all added
\* bidirectionally, kruskal_mst returns exactly N-1 edges of the graph that
\* contain no cycle and connect all N nodes, each undirected edge at most once.
C11_KruskalSpanningTree ==
    (k_pc = "done" /\ Connected(GraphNodes(adj_list), DirEdges(adj_list)))
        => /\ Len(k_mst) = Cardinality(GraphNodes(adj_list)) - 1
           /\ EdgesOfGraph(k_mst, weights)
           /\ NoCycle(k_mst)
           /\ EachEdgeOnce(k_mst)
           /\ Connected(GraphNodes(adj_list), PairsBut(k_mst, 0))

\* kruskal_mst has returned on the 4-node cycle of equal-weight edges
C11_Witness ==
    /\ k_pc = "done"
    /\ DOMAIN weights = Sym({<<1, 2>>, <<2, 3>>, <<3, 4>>, <<4, 1>>})
    /\ \A e \in DOMAIN weights : weights[e] = 1
    /\ Len(k_mst) = 3

\* the undirected edges of a graph, each named once as (u, v) with u < v
UEdges(wt) == {e \in DOMAIN wt : e[1] < e[2]}

\* F joins exactly the nodes the graph joins and no edge of F closes a cycle
SpanningForest(F, V, E) ==
    /\ \A v \in V : Closure(Sym(F), {v}) = Closure(Sym(E), {v})
    /\ \A e \in F : e[2] \notin Closure(Sym(F \ {e}), {e[1]})

RECURSIVE SetWeight(_, _)
SetWeight(F, wt) ==
    IF F = {} THEN 0
    ELSE LET e == CHOOSE x \in F : TRUE IN wt[e] + SetWeight(F \ {e}, wt)

RECURSIVE ListWeight(_)
ListWeight(mst) == IF mst = <<>> THEN 0 ELSE Head(mst)[3] + ListWeight(Tail(mst))

\* the spanning forests of the graph
SpanningForests(a, wt) ==
    {F \in SUBSET UEdges(wt) : SpanningForest(F, GraphNodes(a), DirEdges(a))}

\* C19: kruskal_mst returns a spanning forest of the graph (a spanning tree
\* when the graph is connected) whose total weight is minimal among all
\* spanning forests of the graph.
C19_KruskalMinimumWeight ==
    k_pc = "done"
        => /\ EdgesOfGraph(k_mst, weights)
           /\ NoCycle(k_mst)
           /\ SpanningForest(PairsBut(k_mst, 0), GraphNodes(adj_list), DirEdges(adj_list))
           /\ \A F \in SpanningForests(adj_list, weights) :
                  ListWeight(k_mst) <= SetWeight(F, weights)

\* kruskal_mst has returned on a connected 4-node graph that has a heavier
\* spanning tree than the returned one
C19_Witness ==
    /\ k_pc = "done"
    /\ Cardinality(GraphNodes(adj_list)) = 4
    /\ Connected(GraphNodes(adj_list), DirEdges(adj_list))
    /\ \E F \in SpanningForests(adj_list, weights) :
           ListWeight(k_mst) < SetWeight(F, weights)

\* kruskal_mst has returned on a graph of two separate components
KruskalOnDisconnected ==
    /\ k_pc = "done"
    /\ Cardinality(GraphNodes(adj_list)) = 4
    /\ ~Connected(GraphNodes(adj_list), DirEdges(adj_list))
    /\ Len(k_mst) = 2

(* ------------------------------ bfs / dfs ------------------------------ *)

\* a variant of the loop that does not look at visited after queue.pop(0)
RECURSIVE BfsLoopNoRecheck(_, _, _, _)
BfsLoopNoRecheck(a, queue, visited, order) ==
    IF queue = <<>> THEN order
    ELSE LET vertex == Head(queue)
             seen == visited \cup {vertex}
         IN  BfsLoopNoRecheck(a,
                              Tail(queue) \o SelectSeq(ListOf(a, vertex), LAMBDA u : u \notin seen),
                              seen,
                              Append(order, vertex))

\* the while loop of bfs: queue.pop(0), then the unvisited neighbors are
\* appended in neighbor-list order
RECURSIVE BfsLoop(_, _, _, _)
BfsLoop(a, queue, visited, order) ==
    IF queue = <<>> THEN order
    ELSE LET vertex == Head(queue)
             rest == Tail(queue)
         IN  IF vertex \notin visited
             THEN LET seen == visited \cup {vertex}
                  IN  BfsLoop(a,
                              rest \o SelectSeq(ListOf(a, vertex), LAMBDA u : u \notin seen),
                              seen,
                              Append(order, vertex))
             ELSE BfsLoop(a, rest, visited, order)

Bfs(a, start) == BfsLoop(a, <<start>>, {}, <<>>)

\* dfs_recursive(node) and its for loop from the i-th neighbor on; st holds
\* the closure variables visited and order
RECURSIVE DfsRecursive(_, _, _)
RECURSIVE DfsFor(_, _, _, _)
DfsRecursive(a, node, st) ==
    DfsFor(a, node, 1,
           [visited |-> st.visited \cup {node}, order |-> Append(st.order, node)])

DfsFor(a, node, i, st) ==
    IF i > Len(ListOf(a, node)) THEN st
    ELSE LET u == ListOf(a, node)[i]
         IN  DfsFor(a, node, i + 1,
                    IF u \notin st.visited THEN DfsRecursive(a, u, st) ELSE st)

Dfs(a, start) == DfsRecursive(a, start, [visited |-> {}, order |-> <<>>]).order

(* --------------------------- topological_sort -------------------------- *)

\* a variant of visit that takes an in-progress node for a visited one
RECURSIVE TopoVisitUnmarked(_, _, _)
RECURSIVE TopoForUnmarked(_, _, _, _)
TopoVisitUnmarked(a, node, st) ==
    IF node \in st.visited \/ node \in st.temp_marked THEN st
    ELSE LET s1 == TopoForUnmarked(a, node, 1,
                                   [st EXCEPT !.temp_marked = @ \cup {node}])
         IN  [s1 EXCEPT !.temp_marked = @ \ {node},
                        !.visited = @ \cup {node},
                        !.order = Append(@, node)]

TopoForUnmarked(a, node, i, st) ==
    IF i > Len(ListOf(a, node)) THEN st
    ELSE TopoForUnmarked(a, node, i + 1, TopoVisitUnmarked(a, ListOf(a, node)[i], st))

\* visit(node) and its for loop from the i-th neighbor on; st holds visited,
\* temp_marked, order and whether ValueError is propagating
RECURSIVE TopoVisit(_, _, _)
RECURSIVE TopoFor(_, _, _, _)
TopoVisit(a, node, st) ==
    IF node \in st.temp_marked THEN [st EXCEPT !.raised = TRUE]
    ELSE IF node \notin st.visited
    THEN LET s1 == TopoFor(a, node, 1, [st EXCEPT !.temp_marked = @ \cup {node}])
         IN  IF s1.raised THEN s1
             ELSE [s1 EXCEPT !.temp_marked = @ \ {node},
                             !.visited = @ \cup {node},
                             !.order = Append(@, node)]
    ELSE st

TopoFor(a, node, i, st) ==
    IF st.raised \/ i > Len(ListOf(a, node)) THEN st
    ELSE TopoFor(a, node, i + 1, TopoVisit(a, ListOf(a, node)[i], st))

\* for node in graph.nodes(), the nodes coming in the order iter gives them
RECURSIVE TopoOuter(_, _, _, _)
TopoOuter(a, iter, i, st) ==
    IF st.raised \/ i > Len(iter) THEN st
    ELSE TopoOuter(a, iter, i + 1,
                   IF iter[i] \notin st.visited THEN TopoVisit(a, iter[i], st) ELSE st)

\* a variant that returns the list order as built, not reversed
TopologicalSortPostorder(a, iter) ==
    LET st == TopoOuter(a, iter, 1,
                        [visited |-> {}, temp_marked |-> {}, order |-> <<>>, raised |-> FALSE])
    IN  [raised |-> st.raised, none |-> FALSE,
         value |-> IF st.raised THEN <<>> ELSE st.order]

\* topological_sort(graph): raised, or the list order[::-1]
TopologicalSort(a, iter) ==
    LET st == TopoOuter(a, iter, 1,
                        [visited |-> {}, temp_marked |-> {}, order |-> <<>>, raised |-> FALSE])
    IN  [raised |-> st.raised, none |-> FALSE,
         value |-> IF st.raised THEN <<>> ELSE Reverse(st.order)]

(* ------------------------------ tarjan_scc ----------------------------- *)

\* min(x, y)
PyMin(x, y) == IF y < x THEN y ELSE x

\* the while True loop of strongconnect: pop the stack into scc down to node
RECURSIVE PopScc(_, _, _)
PopScc(st, node, scc) ==
    LET w == st.stack[Len(st.stack)]
        s1 == [st EXCEPT !.stack = SubSeq(@, 1, Len(@) - 1),
                         !.on_stack = @ \ {w}]
    IN  IF w = node
        THEN [s1 EXCEPT !.sccs = Append(@, Append(scc, w))]
        ELSE PopScc(s1, node, Append(scc, w))

\* a variant of the neighbor loop that skips the on-stack branch
RECURSIVE StrongConnectNoBackEdge(_, _, _)
RECURSIVE TarjanForNoBackEdge(_, _, _, _)
StrongConnectNoBackEdge(a, node, st) ==
    LET s0 == [st EXCEPT !.indices = DictSet(@, node, st.index),
                         !.lowlink = DictSet(@, node, st.index),
                         !.index = @ + 1,
                         !.stack = Append(@, node),
                         !.on_stack = @ \cup {node}]
        s1 == TarjanForNoBackEdge(a, node, 1, s0)
    IN  IF s1.lowlink[node] = s1.indices[node] THEN PopScc(s1, node, <<>>) ELSE s1

TarjanForNoBackEdge(a, node, i, st) ==
    IF i > Len(ListOf(a, node)) THEN st
    ELSE LET neighbor == ListOf(a, node)[i]
         IN  TarjanForNoBackEdge(a, node, i + 1,
                 IF neighbor \notin DOMAIN st.indices
                 THEN LET s == StrongConnectNoBackEdge(a, neighbor, st)
                      IN  [s EXCEPT !.lowlink =
                              DictSet(@, node, PyMin(s.lowlink[node], s.lowlink[neighbor]))]
                 ELSE st)

\* strongconnect(node) and its for loop from the i-th neighbor on; st holds
\* index, indices, lowlink, stack, on_stack and sccs
RECURSIVE StrongConnect(_, _, _)
RECURSIVE TarjanFor(_, _, _, _)
StrongConnect(a, node, st) ==
    LET s0 == [st EXCEPT !.indices = DictSet(@, node, st.index),
                         !.lowlink = DictSet(@, node, st.index),
                         !.index = @ + 1,
                         !.stack = Append(@, node),
                         !.on_stack = @ \cup {node}]
        s1 == TarjanFor(a, node, 1, s0)
    IN  IF s1.lowlink[node] = s1.indices[node] THEN PopScc(s1, node, <<>>) ELSE s1

TarjanFor(a, node, i, st) ==
    IF i > Len(ListOf(a, node)) THEN st
    ELSE LET neighbor == ListOf(a, node)[i]
         IN  TarjanFor(a, node, i + 1,
                 IF neighbor \notin DOMAIN st.indices
                 THEN LET s == StrongConnect(a, neighbor, st)
                      IN  [s EXCEPT !.lowlink =
                              DictSet(@, node, PyMin(s.lowlink[node], s.lowlink[neighbor]))]
                 ELSE IF neighbor \in st.on_stack
                 THEN [st EXCEPT !.lowlink =
                          DictSet(@, node, PyMin(st.lowlink[node], st.indices[neighbor]))]
                 ELSE st)

\* for node in graph.nodes(), the nodes coming in the order iter gives them
RECURSIVE TarjanOuter(_, _, _, _)
TarjanOuter(a, iter, i, st) ==
    IF i > Len(iter) THEN st
    ELSE TarjanOuter(a, iter, i + 1,
                     IF iter[i] \notin DOMAIN st.indices
                     THEN StrongConnect(a, iter[i], st) ELSE st)

\* tarjan_scc(graph): the list sccs
TarjanScc(a, iter) ==
    TarjanOuter(a, iter, 1,
                [index |-> 0, indices |-> EmptyDict, lowlink |-> EmptyDict,
                 stack |-> <<>>, on_stack |-> {}, sccs |-> <<>>]).sccs

(* ------------------- specification: traversals, orderings -------------- *)

\* node identifiers offered to the traversal specification
AlgoNodes == {1, 2, 3}

\* cap on the number of neighbor-list entries (traversal specification)
AlgoMaxEntries == 4

\* the orders in which iter(set) can give the nodes of a graph
IterOrders(S) ==
    {f \in [1..Cardinality(S) -> S] : \A i, j \in 1..Cardinality(S) : f[i] = f[j] => i = j}

AlgoAddEdge ==
    \E u \in AlgoNodes, v \in AlgoNodes, b \in BOOLEAN :
        /\ Entries(adj_list) + (IF b THEN 2 ELSE 1) <= AlgoMaxEntries
        /\ AddEdge(u, v, 1, b)
        /\ ret' = NoReturn

RunBfs ==
    \E start \in AlgoNodes :
        /\ Query("bfs", start, 0)
        /\ ret' = [raised |-> FALSE, none |-> FALSE, value |-> Bfs(adj_list, start)]

RunDfs ==
    \E start \in AlgoNodes :
        /\ Query("dfs", start, 0)
        /\ ret' = [raised |-> FALSE, none |-> FALSE, value |-> Dfs(adj_list, start)]

RunTopologicalSort ==
    \E iter \in IterOrders(GraphNodes(adj_list)) :
        /\ Query("topological_sort", 0, 0)
        /\ ret' = TopologicalSort(adj_list, iter)

RunTarjanScc ==
    \E iter \in IterOrders(GraphNodes(adj_list)) :
        /\ Query("tarjan_scc", 0, 0)
        /\ ret' = [raised |-> FALSE, none |-> FALSE, value |-> TarjanScc(adj_list, iter)]

algoRest == <<pathVars, segVars, ufVars, kruskalVars, fenVars, pqVars, searchVars, lateVars>>

NextAlgo ==
    \/ AlgoAddEdge /\ UNCHANGED algoRest
    \/ RunBfs /\ UNCHANGED algoRest
    \/ RunDfs /\ UNCHANGED algoRest
    \/ RunTopologicalSort /\ UNCHANGED algoRest
    \/ RunTarjanScc /\ UNCHANGED algoRest

SpecAlgo == InitGraph /\ [][NextAlgo]_vars

(* ------------------------ claims: topological_sort --------------------- *)

\* some node reaches itself along one or more directed edges
HasCycle(a) == \E e \in DirEdges(a) : e[1] \in Closure(DirEdges(a), {e[2]})

\* the position of x in a list that holds it
PosOf(lst, x) == CHOOSE i \in 1..Len(lst) : lst[i] = x

\* lst holds every element of S exactly once and nothing else
ListsOnce(lst, S) ==
    /\ Elems(lst) = S
    /\ Len(lst) = Cardinality(S)

\* C12: topological_sort raises ValueError on every graph that contains a
\* self-loop or a directed cycle, in whatever order the nodes are iterated.
C12_TopologicalSortRaisesOnCycle ==
    (call.op = "topological_sort" /\ HasCycle(adj_list)) => ret.raised

\* topological_sort has raised on a cycle through three nodes
C12_Witness ==
    /\ call.op = "topological_sort"
    /\ ret.raised
    /\ DirEdges(adj_list) = {<<1, 2>>, <<2, 3>>, <<3, 1>>}

\* C13: on a directed acyclic graph topological_sort returns, without
\* raising, a list holding every node of graph.nodes() exactly once in which
\* u comes before v for every directed edge u->v.
C13_TopologicalSortOrdersDag ==
    (call.op = "topological_sort" /\ ~HasCycle(adj_list))
        => /\ ~ret.raised
           /\ ListsOnce(ret.value, GraphNodes(adj_list))
           /\ \A e \in DirEdges(adj_list) :
                  PosOf(ret.value, e[1]) < PosOf(ret.value, e[2])

\* topological_sort has returned on an acyclic graph of three nodes, one of
\* them only a neighbor, in which one node has two outgoing edges
C13_Witness ==
    /\ call.op = "topological_sort"
    /\ ~HasCycle(adj_list)
    /\ ~ret.raised
    /\ Cardinality(GraphNodes(adj_list)) = 3
    /\ GraphNodes(adj_list) # DOMAIN adj_list
    /\ \E u \in DOMAIN adj_list : Cardinality(Elems(adj_list[u])) = 2

(* --------------------------- claims: tarjan_scc ------------------------ *)

\* the groups of a list of lists, one after the other
RECURSIVE Flatten(_)
Flatten(groups) == IF groups = <<>> THEN <<>> ELSE Head(groups) \o Flatten(Tail(groups))

\* some group holds both u and v
SameGroup(groups, u, v) ==
    \E i \in 1..Len(groups) : u \in Elems(groups[i]) /\ v \in Elems(groups[i])

\* each of u and v reaches the other along directed edges
MutuallyReachable(a, u, v) ==
    /\ v \in Closure(DirEdges(a), {u})
    /\ u \in Closure(DirEdges(a), {v})

\* C17: tarjan_scc returns groups that partition graph.nodes() (every node
\* in exactly one group, no group empty), two nodes sharing a group exactly
\* when each is reachable from the other along directed edges.
C17_TarjanSccPartition ==
    call.op = "tarjan_scc"
        => /\ \A i \in 1..Len(ret.value) : ret.value[i] # <<>>
           /\ ListsOnce(Flatten(ret.value), GraphNodes(adj_list))
           /\ \A u, v \in GraphNodes(adj_list) :
                  SameGroup(ret.value, u, v) <=> MutuallyReachable(adj_list, u, v)

\* tarjan_scc has returned a group of two nodes and a group of one node that
\* is joined to the first by an edge in one direction only
C17_Witness ==
    /\ call.op = "tarjan_scc"
    /\ Len(ret.value) = 2
    /\ \E i \in 1..2 : Len(ret.value[i]) = 2
    /\ \E e \in DirEdges(adj_list) : ~SameGroup(ret.value, e[1], e[2])

\* tarjan_scc has returned the three nodes of a cycle as one group
TarjanOnThreeCycle ==
    /\ call.op = "tarjan_scc"
    /\ DirEdges(adj_list) = {<<1, 2>>, <<2, 3>>, <<3, 1>>}
    /\ Len(ret.value) = 1

(* ---------------------------- claims: bfs / dfs ------------------------ *)

\* the nodes within k edges of start
RECURSIVE Ball(_, _, _)
Ball(a, start, k) ==
    IF k = 0 THEN {start}
    ELSE LET B == Ball(a, start, k - 1)
         IN  B \cup {e[2] : e \in {f \in DirEdges(a) : f[1] \in B}}

\* the least number of edges on a path from start to a node it reaches
HopDistance(a, start, v) ==
    CHOOSE k \in 0..Cardinality(GraphNodes(a)) :
        /\ v \in Ball(a, start, k)
        /\ k = 0 \/ v \notin Ball(a, start, k - 1)

\* the first node of the list that has v as a neighbor
BfsParent(a, order, v) ==
    order[CHOOSE i \in 1..Len(order) :
              /\ v \in Elems(ListOf(a, order[i]))
              /\ \A j \in 1..(i - 1) : v \notin Elems(ListOf(a, order[j]))]

\* x comes before y in the list
Before(lst, x, y) == PosOf(lst, x) < PosOf(lst, y)

\* the nodes found from an earlier node come earlier, and the nodes found
\* from one node come in the order of its neighbor list
NeighborListOrder(a, order) ==
    \A i, j \in 2..Len(order) :
        LET x == order[i]
            y == order[j]
            px == BfsParent(a, order, x)
            py == BfsParent(a, order, y)
        IN  i < j =>
                \/ Before(order, px, py)
                \/ px = py /\ Before(ListOf(a, px), x, y)

\* C18: bfs and dfs return a list that begins with start and holds exactly
\* the nodes reachable from start, each once; bfs lists them in
\* non-decreasing hop distance and in neighbor-list order.
C18_TraversalOrder ==
    call.op \in {"bfs", "dfs"}
        => /\ ret.value[1] = call.u
           /\ ListsOnce(ret.value, Closure(DirEdges(adj_list), {call.u}))
           /\ call.op = "bfs" =>
                  /\ \A i, j \in 1..Len(ret.value) :
                         i < j => HopDistance(adj_list, call.u, ret.value[i])
                                      <= HopDistance(adj_list, call.u, ret.value[j])
                  /\ NeighborListOrder(adj_list, ret.value)

\* bfs has returned three nodes from a start that lists itself and lists its
\* larger neighbor first
C18_Witness ==
    /\ call.op = "bfs"
    /\ Len(ret.value) = 3
    /\ call.u \in Elems(ListOf(adj_list, call.u))
    /\ ret.value[2] > ret.value[3]
    /\ HopDistance(adj_list, call.u, ret.value[3]) = 1

\* dfs has returned on a graph with a duplicate neighbor and a node that
\* start does not reach
DfsOmitsUnreachable ==
    /\ call.op = "dfs"
    /\ Len(ret.value) = 2
    /\ Cardinality(GraphNodes(adj_list)) = 3
    /\ \E u \in DOMAIN adj_list : Len(adj_list[u]) > Cardinality(Elems(adj_list[u]))

\* bfs has returned a node two edges away from start
BfsReachesSecondLayer ==
    /\ call.op = "bfs"
    /\ HopDistance(adj_list, call.u, ret.value[Len(ret.value)]) = 2

(* ----------------------------- FenwickTree ----------------------------- *)

\* index & -index for a positive index: the lowest set bit
RECURSIVE LowBit(_)
LowBit(index) == IF index % 2 = 1 THEN 1 ELSE 2 * LowBit(index \div 2)

\* FenwickTree.__init__: tree = [0] * (size + 1); tree[i] is held at i + 1
FenNew(size) == [size |-> size, tree |-> [i \in 1..(size + 1) |-> 0]]

\* the while loop of update, index 1-based
RECURSIVE FenUpdateLoop(_, _, _, _)
FenUpdateLoop(tree, size, index, value) ==
    IF index <= size
    THEN FenUpdateLoop([tree EXCEPT ![index + 1] = @ + value], size,
                       index + LowBit(index), value)
    ELSE tree

\* a variant of update that stops after the first cell
FenUpdateFirstCell(t, index, value) ==
    [t EXCEPT !.tree = IF index + 1 <= t.size
                       THEN [t.tree EXCEPT ![index + 2] = @ + value]
                       ELSE t.tree]

\* FenwickTree.update(index, value), index 0-based
FenUpdate(t, index, value) ==
    [t EXCEPT !.tree = FenUpdateLoop(t.tree, t.size, index + 1, value)]

\* the while loop of query, index 1-based
RECURSIVE FenQueryLoop(_, _, _)
FenQueryLoop(tree, index, result) ==
    IF index > 0
    THEN FenQueryLoop(tree, index - LowBit(index), result + tree[index + 1])
    ELSE result

\* FenwickTree.query(index), index 0-based
FenQuery(t, index) == FenQueryLoop(t.tree, index + 1, 0)

(* ---------------------- specification: FenwickTree --------------------- *)

\* largest size a FenwickTree is made with
FenMaxSize == 5

\* number of update calls made on one tree
FenMaxUpdates == 4

\* the values offered to update
FenValues == {-1, 2}

FenBuilt(size) ==
    /\ fen = FenNew(size)
    /\ fen_added = [i \in 1..size |-> 0]
    /\ fen_call = NoFenCall

DoFenUpdate ==
    \E index \in 0..(fen.size - 1), value \in FenValues :
        /\ fen_call.count < FenMaxUpdates
        /\ fen' = FenUpdate(fen, index, value)
        /\ fen_added' = [fen_added EXCEPT ![index + 1] = @ + value]
        /\ fen_call' = [index |-> index, value |-> value, count |-> fen_call.count + 1]

InitFen ==
    /\ GraphIdle /\ SegIdle /\ UFInit
    /\ AlgoIdle /\ KruskalIdle /\ PQIdle /\ SearchIdle /\ LateIdle
    /\ \E size \in 1..FenMaxSize : FenBuilt(size)

NextFen ==
    DoFenUpdate /\ UNCHANGED <<graphVars, pathVars, segVars, ufVars, algoVars, kruskalVars, pqVars, searchVars, lateVars>>

SpecFen == InitFen /\ [][NextFen]_vars

(* -------------------------- claims: FenwickTree ------------------------ *)

\* the sum of the first n elements of a list
RECURSIVE PrefixSum(_, _)
PrefixSum(lst, n) == IF n = 0 THEN 0 ELSE PrefixSum(lst, n - 1) + lst[n]

\* C14: after any sequence of update(index, value) calls with
\* 0 <= index < N, query(i) for every 0 <= i < N is the sum of all values
\* added at indices <= i.
C14_FenwickPrefixSums ==
    \A i \in 0..(fen.size - 1) : FenQuery(fen, i) = PrefixSum(fen_added, i + 1)

\* a tree of five cells has taken updates at three or more indices, the last
\* of them at an index below the top one
C14_Witness ==
    /\ fen.size = 5
    /\ fen_call.count = FenMaxUpdates
    /\ Cardinality({j \in 1..5 : fen_added[j] # 0}) >= 3
    /\ fen_call.index < 4
    /\ FenQuery(fen, 4) # 0

(* --------------------- specification: PriorityQueue -------------------- *)

\* the integer items offered to push; the integer x is held as <<x>>
PQValues == {1, 2, 3, 5}

\* the key projections a queue is made with: lambda x: x, lambda x: -x and
\* lambda x: x // 2 (which gives 2 and 3 the same key)
PQKeys == {"identity", "negate", "half"}

\* most items a queue holds
PQMaxLen == 4

\* self.key(item)
PQKey(k, item) ==
    CASE k = "identity" -> item[1]
      [] k = "negate" -> 0 - item[1]
      [] k = "half" -> item[1] \div 2

\* PriorityQueue.push with the queue's key
PQPushKey(data, k, item) == HeapPush(data, <<PQKey(k, item), item>>)

\* PriorityQueue() with a key and no items
PQBuilt(k) ==
    /\ pq_data = <<>>
    /\ pq_key = k
    /\ pq_held = [x \in PQValues |-> 0]
    /\ pq_call = NoPQCall

DoPQPush ==
    \E x \in PQValues :
        /\ Len(pq_data) < PQMaxLen
        /\ pq_data' = PQPushKey(pq_data, pq_key, <<x>>)
        /\ pq_held' = [pq_held EXCEPT ![x] = @ + 1]
        /\ pq_call' = [op |-> "push", item |-> <<x>>, raised |-> FALSE, popped |-> <<>>]
        /\ UNCHANGED pq_key

\* heappop raises IndexError on an empty list
DoPQPop ==
    /\ IF PQIsEmpty(pq_data)
       THEN /\ pq_call' = [op |-> "pop", item |-> <<>>, raised |-> TRUE, popped |-> pq_call.popped]
            /\ UNCHANGED <<pq_data, pq_held>>
       ELSE LET p == PQPop(pq_data)
            IN  /\ pq_data' = p.data
                /\ pq_held' = [pq_held EXCEPT ![p.item[1]] = @ - 1]
                /\ pq_call' = [op |-> "pop", item |-> p.item, raised |-> FALSE,
                               popped |-> Append(pq_call.popped, p.item)]
    /\ UNCHANGED pq_key

InitPQ ==
    /\ GraphIdle /\ SegIdle /\ UFInit
    /\ AlgoIdle /\ KruskalIdle /\ FenIdle /\ SearchIdle /\ LateIdle
    /\ \E k \in PQKeys : PQBuilt(k)

pqRest == <<graphVars, pathVars, segVars, ufVars, algoVars, kruskalVars, fenVars, searchVars, lateVars>>

NextPQ ==
    \/ DoPQPush /\ UNCHANGED pqRest
    \/ DoPQPop /\ UNCHANGED pqRest

SpecPQ == InitPQ /\ [][NextPQ]_vars

(* ------------------------- claims: PriorityQueue ----------------------- *)

\* how many entries of _data carry the item <<x>>
CountIn(data, x) == Cardinality({i \in 1..Len(data) : data[i][2] = <<x>>})

\* _data carries exactly the items pushed and not yet popped
HoldsWhatWasPushed == \A x \in PQValues : CountIn(pq_data, x) = pq_held[x]

\* every parent's key <= its children's keys; the entry at 0-based position
\* i is held at i + 1 and its parent at (i - 1) // 2
HeapOrder(data) ==
    \A i \in 1..(Len(data) - 1) : data[((i - 1) \div 2) + 1][1] <= data[i + 1][1]

\* the keys of a list of items do not decrease
KeysNonDecreasing(k, items) ==
    \A i \in 1..(Len(items) - 1) : PQKey(k, items[i]) <= PQKey(k, items[i + 1])

\* C15: after any interleaving of push and pop, pop on a non-empty queue
\* removes and returns an item whose key is minimal among the items held,
\* so consecutive pops give non-decreasing keys, and _data satisfies the
\* heap order after every operation.
C15_PopReturnsMinimalKey ==
    /\ HoldsWhatWasPushed
    /\ HeapOrder(pq_data)
    /\ KeysNonDecreasing(pq_key, pq_call.popped)
    /\ (pq_call.op = "pop" /\ ~pq_call.raised) =>
           \A x \in PQValues :
               pq_held[x] > 0 => PQKey(pq_key, pq_call.item) <= PQKey(pq_key, <<x>>)

\* a queue made with key = -x has popped its largest item, 5, and still
\* holds two or more smaller items
C15_Witness ==
    /\ pq_key = "negate"
    /\ pq_call.op = "pop"
    /\ ~pq_call.raised
    /\ pq_call.item = <<5>>
    /\ Len(pq_data) >= 2
    /\ pq_held[5] = 0

\* a queue with the identity key has been drained of 5, 1, 3 in ascending order
DrainedAscending ==
    /\ pq_key = "identity"
    /\ pq_call.popped = <<<<1>>, <<3>>, <<5>>>>
    /\ pq_data = <<>>

(* ----------------------------- bellman_ford ---------------------------- *)

\* "for v, w in graph.adj_list.get(u, [])" unpacks a neighbor, which is a
\* node and not a pair: with integer nodes the first neighbor reached raises
\* TypeError
UnpacksNeighbor(a) == \E u \in GraphNodes(a) : ListOf(a, u) # <<>>

\* bellman_ford(graph, start): the function body ends after num_vertices is
\* computed, so a call that does not raise returns None
BellmanFord(a, wt, start) ==
    IF UnpacksNeighbor(a)
    THEN [raised |-> TRUE, none |-> FALSE, value |-> <<>>]
    ELSE [raised |-> FALSE, none |-> TRUE, value |-> <<>>]

(* ---------------------- specification: bellman_ford -------------------- *)

\* weights offered to add_edge by the bellman_ford specification
BFWeights == {-2, 1}

BFAddEdge ==
    \E u \in PathNodes, v \in PathNodes, w \in BFWeights, b \in BOOLEAN :
        /\ Entries(adj_list) + (IF b THEN 2 ELSE 1) <= PathMaxEntries
        /\ AddEdge(u, v, w, b)
        /\ ret' = NoReturn

RunBellmanFord ==
    \E start \in PathNodes :
        /\ Query("bellman_ford", start, 0)
        /\ ret' = BellmanFord(adj_list, weights, start)

NextBF ==
    \/ BFAddEdge /\ UNCHANGED algoRest
    \/ RunBellmanFord /\ UNCHANGED algoRest

SpecBF == InitGraph /\ [][NextBF]_vars

(* -------------------------- claims: bellman_ford ----------------------- *)

\* the closed walks over the nodes of a graph that pass at most
\* as many edges as the graph has nodes
ClosedWalks(a) ==
    {p \in UNION {[1..n -> GraphNodes(a)] : n \in 2..(Cardinality(GraphNodes(a)) + 1)} :
        p[1] = p[Len(p)] /\ IsWalk(a, p)}

\* some cycle of the graph has a negative total weight
NegativeCycle(a, wt) == \E p \in ClosedWalks(a) : WalkWeight(wt, p) < 0

\* C16: on a graph built with add_edge that has no negative cycle,
\* bellman_ford returns a mapping from nodes to their shortest-path distance
\* from start (negative weights allowed), and it returns None only when
\* there is a negative cycle.
C16_BellmanFordShortestDistances ==
    call.op = "bellman_ford" =>
        /\ ret.none => NegativeCycle(adj_list, weights)
        /\ ~NegativeCycle(adj_list, weights) =>
               /\ ~ret.raised
               /\ ~ret.none
               /\ \A v \in GraphNodes(adj_list) \cup {call.u} :
                      DistTo(adj_list, weights, call.u, v) < Infinity =>
                          /\ v \in DOMAIN ret.value
                          /\ ret.value[v] = DistTo(adj_list, weights, call.u, v)

\* bellman_ford has raised on a graph with an edge and no negative cycle
BellmanFordRaises ==
    /\ call.op = "bellman_ford"
    /\ ret.raised
    /\ ~NegativeCycle(adj_list, weights)
    /\ -2 \in {weights[e] : e \in DOMAIN weights}

\* bellman_ford has returned None
BellmanFordReturnsNone == call.op = "bellman_ford" /\ ret.none

(* ------------------------------- searching ----------------------------- *)

\* the while loop of binary_search with the identity key; left, right and
\* the returned index are 0-based, arr[i] is held at i + 1
RECURSIVE BinarySearchLoop(_, _, _, _)
BinarySearchLoop(arr, left, right, target) ==
    IF left <= right
    THEN LET mid == (left + right) \div 2
         IN  IF arr[mid + 1] = target THEN mid
             ELSE IF arr[mid + 1] < target
             THEN BinarySearchLoop(arr, mid + 1, right, target)
             ELSE BinarySearchLoop(arr, left, mid - 1, target)
    ELSE -1

\* binary_search(arr, target)
BinarySearch(arr, target) == BinarySearchLoop(arr, 0, Len(arr) - 1, target)

\* the while loop of exponential_search: the bound it stops at
RECURSIVE ExpBound(_, _, _)
ExpBound(arr, bound, target) ==
    IF bound < Len(arr) /\ arr[bound + 1] < target
    THEN ExpBound(arr, bound * 2, target)
    ELSE bound

\* exponential_search(arr, target); arr[left : right + 1] is
\* SubSeq(arr, left + 1, right + 1)
ExponentialSearch(arr, target) ==
    IF arr = <<>> THEN -1
    ELSE LET bound == ExpBound(arr, 1, target)
             left == bound \div 2
             right == PyMin(bound, Len(arr) - 1)
         IN  BinarySearch(SubSeq(arr, left + 1, right + 1), target) + left

(* ------------------------ specification: searching --------------------- *)

\* longest array offered to the searches
SearchMaxLen == 5

\* array elements are 1..SearchMaxValue, targets 0..SearchMaxValue + 1
SearchMaxValue == 5

\* the sorted arrays offered to the searches, duplicates allowed
SortedArrays ==
    {arr \in SeqsUpTo(1..SearchMaxValue, SearchMaxLen) :
        \A i \in 1..(Len(arr) - 1) : arr[i] <= arr[i + 1]}

\* the array and the target of the next call
SearchInput(arr, target) ==
    es_call = [op |-> "none", arr |-> arr, target |-> target, result |-> 0]

DoExponentialSearch ==
    es_call' = [es_call EXCEPT !.op = "exponential_search",
                               !.result = ExponentialSearch(es_call.arr, es_call.target)]

InitSearch ==
    /\ GraphIdle /\ SegIdle /\ UFInit
    /\ AlgoIdle /\ KruskalIdle /\ FenIdle /\ PQIdle /\ LateIdle
    /\ \E arr \in SortedArrays, target \in 0..(SearchMaxValue + 1) : SearchInput(arr, target)

NextSearch ==
    DoExponentialSearch /\ UNCHANGED <<graphVars, pathVars, segVars, ufVars, algoVars, kruskalVars, fenVars, pqVars, lateVars>>

SpecSearch == InitSearch /\ [][NextSearch]_vars

(* --------------------------- claims: searching ------------------------- *)

\* the result of a search is the 0-based index of an element equal to target
FoundAt(c) ==
    /\ c.result \in 0..(Len(c.arr) - 1)
    /\ c.arr[c.result + 1] = c.target

\* C20: exponential_search on a sorted array returns an index i with
\* arr[i] == target when the target is present and -1 whenever it is absent,
\* for every array length and every position of the miss.
C20_ExponentialSearchResult ==
    es_call.op = "exponential_search" =>
        IF es_call.target \in Elems(es_call.arr)
        THEN FoundAt(es_call)
        ELSE es_call.result = -1

\* exponential_search finds every target that is present
ExponentialSearchFindsPresent ==
    (es_call.op = "exponential_search" /\ es_call.target \in Elems(es_call.arr))
        => FoundAt(es_call)

\* exponential_search misses a target that lies between two elements and
\* returns an index instead of -1
ExponentialSearchMissReturnsIndex ==
    /\ es_call.op = "exponential_search"
    /\ es_call.arr = <<1, 3, 5>>
    /\ es_call.target = 4
    /\ es_call.result = 0

(* ------------------------ ternary_search_discrete ---------------------- *)

\* the functions offered as func, each strictly decreasing down to m and
\* strictly increasing after it: (x - m) ** 2, abs(x - m), and a slope that
\* is three times steeper on the left of m
TernaryFunc(func, x) ==
    CASE func.kind = "square" -> (x - func.m) * (x - func.m)
      [] func.kind = "abs" -> IF x < func.m THEN func.m - x ELSE x - func.m
      [] func.kind = "skew" -> IF x < func.m THEN 3 * (func.m - x) ELSE x - func.m

\* the while loop of ternary_search_discrete and the return
RECURSIVE TernarySearchDiscrete(_, _, _)
TernarySearchDiscrete(func, left, right) ==
    IF left < right
    THEN LET mid1 == left + (right - left) \div 3
             mid2 == right - (right - left) \div 3
             f1 == TernaryFunc(func, mid1)
             f2 == TernaryFunc(func, mid2)
         IN  IF f1 < f2
             THEN TernarySearchDiscrete(func, left, mid2 - 1)
             ELSE TernarySearchDiscrete(func, mid2 + 1, right)
    ELSE left

(* ----------------- specification: ternary_search_discrete -------------- *)

\* the interval boundaries and the minimum positions are 0..TernaryMaxRight
TernaryMaxRight == 5

TernaryKinds == {"square", "abs", "skew"}

\* the function and the interval of the next call
TernaryInput(func, left, right) ==
    ts_call = [op |-> "none", func |-> func, left |-> left, right |-> right, result |-> 0]

DoTernarySearch ==
    ts_call' = [ts_call EXCEPT
                   !.op = "ternary_search_discrete",
                   !.result = TernarySearchDiscrete(ts_call.func, ts_call.left, ts_call.right)]

InitTernary ==
    /\ GraphIdle /\ SegIdle /\ UFInit
    /\ AlgoIdle /\ KruskalIdle /\ FenIdle /\ PQIdle /\ SearchIdle
    /\ LcsIdle /\ TrieIdle
    /\ \E kind \in TernaryKinds, m \in 0..TernaryMaxRight :
       \E left \in 0..TernaryMaxRight, right \in 0..TernaryMaxRight :
           /\ left <= right
           /\ TernaryInput([kind |-> kind, m |-> m], left, right)

NextTernary ==
    DoTernarySearch /\ UNCHANGED <<graphVars, pathVars, segVars, ufVars, algoVars, kruskalVars, fenVars, pqVars, searchVars, lcs_call, trie, trie_words, trie_call>>

SpecTernary == InitTernary /\ [][NextTernary]_vars

(* --------------------- claims: ternary_search_discrete ----------------- *)

\* C21: ternary_search_discrete returns a position inside [left, right] at
\* which the strictly unimodal function attains its minimum over
\* [left, right] (2 for (x - 2) ** 2 on [0, 5]).
C21_TernarySearchFindsMinimum ==
    ts_call.op = "ternary_search_discrete" =>
        /\ ts_call.result \in ts_call.left..ts_call.right
        /\ \A x \in ts_call.left..ts_call.right :
               TernaryFunc(ts_call.func, ts_call.result) <= TernaryFunc(ts_call.func, x)

\* the call on (x - 2) ** 2 over [0, 5] has returned 3
TernarySearchMissesMinimum ==
    /\ ts_call.op = "ternary_search_discrete"
    /\ ts_call.func = [kind |-> "square", m |-> 2]
    /\ ts_call.left = 0 /\ ts_call.right = 5
    /\ ts_call.result = 3

\* the call on (x - 1) ** 2 over [0, 1] has returned 2, outside the interval
TernarySearchLeavesInterval ==
    /\ ts_call.op = "ternary_search_discrete"
    /\ ts_call.func = [kind |-> "square", m |-> 1]
    /\ ts_call.left = 0 /\ ts_call.right = 1
    /\ ts_call.result = 2

(* --------------------------------- Trie -------------------------------- *)

\* A TrieNode is named by the characters on the way to it from the root (the
\* root is <<>>); node.children[char] is the node Append(node, char), and
\* "char in node.children" says that this node exists.

\* the for loop of insert from the i-th character on, then the mark
RECURSIVE TrieInsertFrom(_, _, _, _)
TrieInsertFrom(t, node, word, i) ==
    IF i > Len(word) THEN [t EXCEPT ![node] = TRUE]
    ELSE LET child == Append(node, word[i])
         IN  TrieInsertFrom(IF child \notin DOMAIN t
                            THEN [n \in (DOMAIN t) \cup {child} |->
                                     IF n = child THEN FALSE ELSE t[n]]
                            ELSE t,
                            child, word, i + 1)

\* Trie.insert(word)
TrieInsert(t, word) == TrieInsertFrom(t, <<>>, word, 1)

\* Trie._find_node(prefix) from the i-th character on: the node, or None
RECURSIVE TrieFindFrom(_, _, _, _)
TrieFindFrom(t, node, prefix, i) ==
    IF i > Len(prefix) THEN [none |-> FALSE, node |-> node]
    ELSE LET child == Append(node, prefix[i])
         IN  IF child \notin DOMAIN t THEN [none |-> TRUE, node |-> <<>>]
             ELSE TrieFindFrom(t, child, prefix, i + 1)

TrieFindNode(t, prefix) == TrieFindFrom(t, <<>>, prefix, 1)

\* Trie.search(word)
TrieSearch(t, word) ==
    LET f == TrieFindNode(t, word) IN IF f.none THEN FALSE ELSE t[f.node]

\* Trie.starts_with(prefix)
TrieStartsWith(t, prefix) == ~TrieFindNode(t, prefix).none

(* -------------------------- specification: Trie ------------------------ *)

\* longest word offered to the Trie
TrieMaxLen == 2

\* most words inserted into one Trie
TrieMaxWords == 3

TrieChars == {"a", "b"}

\* the words and prefixes offered, the empty one included
TrieStrings == SeqsUpTo(TrieChars, TrieMaxLen)

DoTrieInsert ==
    \E word \in TrieStrings :
        /\ Cardinality(trie_words \cup {word}) <= TrieMaxWords
        /\ trie' = TrieInsert(trie, word)
        /\ trie_words' = trie_words \cup {word}
        /\ trie_call' = [op |-> "insert", word |-> word]

InitTrie ==
    /\ GraphIdle /\ SegIdle /\ UFInit
    /\ AlgoIdle /\ KruskalIdle /\ FenIdle /\ PQIdle /\ SearchIdle
    /\ TernaryIdle /\ LcsIdle /\ TrieIdle

NextTrie ==
    DoTrieInsert /\ UNCHANGED <<graphVars, pathVars, segVars, ufVars, algoVars, kruskalVars, fenVars, pqVars, searchVars, ts_call, lcs_call>>

SpecTrie == InitTrie /\ [][NextTrie]_vars

(* ------------------------------ claims: Trie --------------------------- *)

\* p is a prefix of w
IsPrefix(p, w) == Len(p) <= Len(w) /\ SubSeq(w, 1, Len(p)) = p

\* search(w) is True exactly when w was inserted
SearchFindsInserted ==
    \A w \in TrieStrings : TrieSearch(trie, w) <=> w \in trie_words

\* C22: after any sequence of insert calls, search(w) is True exactly when w
\* was inserted, and starts_with(p) is True exactly when some inserted word
\* has p as a prefix (so it is False for every prefix on a trie with no words).
C22_TrieSearchAndPrefix ==
    /\ SearchFindsInserted
    /\ \A p \in TrieStrings :
           TrieStartsWith(trie, p) <=> \E w \in trie_words : IsPrefix(p, w)

\* off the trie with no words, search and starts_with answer as C22 says
TrieRightOnceAWordIsIn ==
    /\ SearchFindsInserted
    /\ trie_words # {} =>
           \A p \in TrieStrings :
               TrieStartsWith(trie, p) <=> \E w \in trie_words : IsPrefix(p, w)

\* on the trie with no words only the empty prefix is answered True
TrieEmptyPrefixOnEmptyTrie ==
    trie_words = {} =>
        \A p \in TrieStrings : TrieStartsWith(trie, p) <=> p = <<>>

(* ------------------------- dynamic programming ------------------------- *)

\* A string is the sequence of its characters; s[i] is held at i + 1.  The
\* table dp is a function of the pair (row, column).

\* [[0] * (n + 1) for _ in range(m + 1)]
DpZeros(m, n) == [c \in (0..m) \X (0..n) |-> 0]

\* max(x, y)
PyMax(x, y) == IF y > x THEN y ELSE x

\* longest_common_subsequence: the loops "for i in range(m): for j in
\* range(n)" from the pair (i, j) on
RECURSIVE LcsLengthFill(_, _, _, _, _)
LcsLengthFill(a, b, dp, i, j) ==
    IF i >= Len(a) THEN dp
    ELSE IF j >= Len(b) THEN LcsLengthFill(a, b, dp, i + 1, 0)
    ELSE LcsLengthFill(a, b,
             [dp EXCEPT ![<<i + 1, j + 1>>] =
                 IF a[i + 1] = b[j + 1] THEN dp[<<i, j>>] + 1
                 ELSE PyMax(dp[<<i, j + 1>>], dp[<<i + 1, j>>])],
             i, j + 1)

\* longest_common_subsequence(a, b)
LongestCommonSubsequence(a, b) ==
    LcsLengthFill(a, b, DpZeros(Len(a), Len(b)), 0, 0)[<<Len(a), Len(b)>>]

\* lsc_sequence: the loops "for i in range(n): for j in range(m)" from the
\* pair (i, j) on; a[i], b[j] and dp[i + 1][j + 1] raise IndexError past the
\* end of the string or of the table
RECURSIVE LscFill(_, _, _, _, _)
LscFill(a, b, dp, i, j) ==
    IF i >= Len(b) THEN [raised |-> FALSE, dp |-> dp]
    ELSE IF j >= Len(a) THEN LscFill(a, b, dp, i + 1, 0)
    ELSE IF i >= Len(a) \/ j >= Len(b) \/ <<i + 1, j + 1>> \notin DOMAIN dp
    THEN [raised |-> TRUE, dp |-> dp]
    ELSE LscFill(a, b,
             [dp EXCEPT ![<<i + 1, j + 1>>] =
                 IF a[i + 1] = b[j + 1] THEN dp[<<i, j>>] + 1
                 ELSE PyMax(dp[<<i, j + 1>>], dp[<<i + 1, j>>])],
             i, j + 1)

\* the truth value of a string: a character of a string is never empty
Truthy(char) == char # ""

\* the while loop of lsc_sequence that rebuilds the subsequence
RECURSIVE LscWalkBack(_, _, _, _, _, _)
LscWalkBack(a, b, dp, i, j, lcs) ==
    IF i > 0 /\ j > 0
    THEN IF Truthy(a[i]) /\ Truthy(b[j])
         THEN LscWalkBack(a, b, dp, i - 1, j - 1, Append(lcs, a[i]))
         ELSE IF dp[<<i - 1, j>>] >= dp[<<i, j - 1>>]
         THEN LscWalkBack(a, b, dp, i - 1, j, lcs)
         ELSE LscWalkBack(a, b, dp, i, j - 1, lcs)
    ELSE lcs

\* lsc_sequence(a, b): raised, or "".join(reversed(lcs))
LscSequence(a, b) ==
    LET filled == LscFill(a, b, DpZeros(Len(a), Len(b)), 0, 0)
    IN  IF filled.raised THEN [raised |-> TRUE, result |-> <<>>]
        ELSE [raised |-> FALSE,
              result |-> Reverse(LscWalkBack(a, b, filled.dp, Len(a), Len(b), <<>>))]

(* ----------------- specification: dynamic programming ------------------ *)

\* longest string offered
LcsMaxLen == 3

LcsChars == {"A", "B"}

LcsStrings == SeqsUpTo(LcsChars, LcsMaxLen)

\* the strings of the next call
LcsInput(a, b) ==
    lcs_call = [op |-> "none", a |-> a, b |-> b, raised |-> FALSE, result |-> <<>>]

DoLscSequence ==
    LET out == LscSequence(lcs_call.a, lcs_call.b)
    IN  lcs_call' = [lcs_call EXCEPT !.op = "lsc_sequence",
                                     !.raised = out.raised,
                                     !.result = out.result]

InitLcs ==
    /\ GraphIdle /\ SegIdle /\ UFInit
    /\ AlgoIdle /\ KruskalIdle /\ FenIdle /\ PQIdle /\ SearchIdle
    /\ TernaryIdle /\ TrieIdle
    /\ \E a \in LcsStrings, b \in LcsStrings : LcsInput(a, b)

NextLcs ==
    DoLscSequence /\ UNCHANGED <<graphVars, pathVars, segVars, ufVars, algoVars, kruskalVars, fenVars, pqVars, searchVars, ts_call, trie, trie_words, trie_call>>

SpecLcs == InitLcs /\ [][NextLcs]_vars

(* ---------------------- claims: dynamic programming -------------------- *)

\* s can be had from t by deleting characters
RECURSIVE IsSubsequence(_, _)
IsSubsequence(s, t) ==
    IF s = <<>> THEN TRUE
    ELSE IF t = <<>> THEN FALSE
    ELSE IF Head(s) = Head(t) THEN IsSubsequence(Tail(s), Tail(t))
    ELSE IsSubsequence(s, Tail(t))

\* C23: lsc_sequence(a, b) returns, for any two strings of equal or
\* different lengths, a common subsequence of a and b whose length is
\* longest_common_subsequence(a, b).
C23_LscSequenceIsLongest ==
    lcs_call.op = "lsc_sequence" =>
        /\ ~lcs_call.raised
        /\ IsSubsequence(lcs_call.result, lcs_call.a)
        /\ IsSubsequence(lcs_call.result, lcs_call.b)
        /\ Len(lcs_call.result) = LongestCommonSubsequence(lcs_call.a, lcs_call.b)

\* the call has raised on two non-empty strings of different lengths
LscSequenceRaises ==
    /\ lcs_call.op = "lsc_sequence"
    /\ lcs_call.raised
    /\ lcs_call.a = <<"A", "B">> /\ lcs_call.b = <<"A">>

\* the call on "AB" and "BA" has returned "AB"
LscSequenceReturnsSuffix ==
    /\ lcs_call.op = "lsc_sequence"
    /\ lcs_call.a = <<"A", "B">> /\ lcs_call.b = <<"B", "A">>
    /\ lcs_call.result = <<"A", "B">>

\* longest_common_subsequence gives the length of the longest string that
\* is a subsequence of both
LcsLengthIsLongest ==
    LET common == {s \in LcsStrings :
                      IsSubsequence(s, lcs_call.a) /\ IsSubsequence(s, lcs_call.b)}
    IN  /\ \A s \in common : Len(s) <= LongestCommonSubsequence(lcs_call.a, lcs_call.b)
        /\ \E s \in common : Len(s) = LongestCommonSubsequence(lcs_call.a, lcs_call.b)

\* the call raises exactly on non-empty strings of different lengths
LscRaisesOnDifferentLengths ==
    lcs_call.op = "lsc_sequence" =>
        (lcs_call.raised <=> /\ Len(lcs_call.a) # Len(lcs_call.b)
                             /\ lcs_call.a # <<>> /\ lcs_call.b # <<>>)

(* ------------------- claims: adjacency and weights agree --------------- *)

\* every key (a, b) of weights has a as an adjacency key with b in a's list
WeightsHaveEdges(a, wt) ==
    \A e \in DOMAIN wt : e[1] \in DOMAIN a /\ e[2] \in Elems(a[e[1]])

\* every neighbor b in a's list has an entry weights[(a, b)]
EdgesHaveWeights(a, wt) == DirEdges(a) \subseteq DOMAIN wt

\* C24: in every state reachable by add_edge, remove_edge and remove_node
\* calls, raising ones included, every key (a, b) of weights has a as an
\* adjacency key with b in a's list, and every neighbor b in a's list has a
\* weights[(a, b)] entry, so no weight lookup hits a missing key.
C24_WeightsMatchAdjacency ==
    /\ WeightsHaveEdges(adj_list, weights)
    /\ EdgesHaveWeights(adj_list, weights)
    /\ ~KMissingWeight(adj_list, weights)

\* a remove_edge call has raised after it had already removed one direction
C24_Witness ==
    /\ call.op = "remove_edge"
    /\ call.raised
    /\ adj_list # old_adj
    /\ weights # old_weights
    /\ weights # EmptyDict

(* --------------------- claims: SegmentTree structure ------------------- *)

\* C26: after construction and after every update(index, value) with
\* 0 <= index < N, every internal node i (1 <= i < size) has
\* tree[i] = func(tree[2i], tree[2i+1]), the leaves size..size+N-1 hold the
\* current array and the padding leaves size+N..2*size-1 hold the default.
C26_SegmentTreeNodes ==
    /\ \A i \in 1..(seg.size - 1) :
           At(seg.tree, i) = Apply(seg.func, At(seg.tree, 2 * i), At(seg.tree, 2 * i + 1))
    /\ \A i \in 0..(seg.n - 1) : At(seg.tree, seg.size + i) = seg_array[i + 1]
    /\ \A i \in (seg.size + seg.n)..(2 * seg.size - 1) : At(seg.tree, i) = seg.default

\* an update has changed the first element of an array of three, whose tree
\* has two levels of internal nodes and one padding leaf
C26_Witness ==
    /\ seg_call.op = "update"
    /\ seg_call.index = 0
    /\ seg.n = 3
    /\ seg.size = 4
    /\ seg_array[1] # seg_array[2]
    /\ At(seg.tree, 1) # seg.default

(* ------------- specification: SegmentTree over concatenation ----------- *)

\* the one-character strings held in the arrays
SegWords == {<<"a">>, <<"b">>, <<"c">>}

\* tree.update(index, value) on a tree of strings
DoSegConcatUpdate ==
    \E index \in 0..(seg.n - 1), value \in SegWords :
        /\ seg' = SegUpdate(seg, index, value)
        /\ seg_array' = [seg_array EXCEPT ![index + 1] = value]
        /\ seg_call' = [op |-> "update", index |-> index, value |-> value]

InitSegConcat ==
    /\ GraphIdle /\ UFInit /\ RestIdle
    /\ \E data \in SeqsUpTo(SegWords, SegMaxLen) : SegBuilt(data, "concat")

NextSegConcat == DoSegConcatUpdate /\ UNCHANGED <<graphVars, pathVars, ufVars, restVars>>

SpecSegConcat == InitSegConcat /\ [][NextSegConcat]_vars

(* ---------------- claims: SegmentTree over concatenation --------------- *)

\* C25: for an associative, non-commutative operator with identity default
\* (concatenation with the empty string), after any update sequence
\* query(l, r) equals the left-to-right fold of the operator over the
\* slice [l, r) of the current array.
C25_QueryIsOrderedFold ==
    seg.func = "concat" =>
        \A left \in 0..seg.n : \A right \in left..seg.n :
            SegQuery(seg, left, right) = FoldSlice("concat", seg_array, left, right)

\* on the array "a", "b", "c" the query over [0, 3) gives "cab"
SegConcatOutOfOrder ==
    /\ seg_array = <<<<"a">>, <<"b">>, <<"c">>>>
    /\ SegQuery(seg, 0, 3) = <<"c", "a", "b">>

\* the query gives the elements of the slice, each once, in some order
SegConcatSameElements ==
    \A left \in 0..seg.n : \A right \in left..seg.n :
        \A w \in SegWords :
            Cardinality({i \in 1..Len(SegQuery(seg, left, right)) :
                            <<SegQuery(seg, left, right)[i]>> = w})
                = Cardinality({i \in (left + 1)..right : seg_array[i] = w})

(* ---------------------- claims: UnionFind invariants ------------------- *)

\* the element reached from x by following at most n parent pointers,
\* stopping at the first element that is its own parent
RECURSIVE UFWalk(_, _, _)
UFWalk(p, x, n) ==
    IF n = 0 \/ x \notin DOMAIN p \/ p[x] = x THEN x ELSE UFWalk(p, p[x], n - 1)

\* where the parent pointers lead from x: a walk that meets no element twice
\* takes fewer steps than there are known elements
Representative(p, x) == UFWalk(p, x, Cardinality(DOMAIN p) - 1)

\* the walk from every known element ends, without repeating an element, at a
\* known element that is its own parent
ParentsLeadToRoot(p) ==
    \A x \in DOMAIN p :
        LET root == Representative(p, x)
        IN  root \in DOMAIN p /\ p[root] = root

\* a step lowers no rank and forgets none
RanksNeverDecrease ==
    \A x \in DOMAIN uf_rank :
        x \in DOMAIN uf_rank' /\ uf_rank'[x] >= uf_rank[x]

\* a find step leaves every known element with the representative it had
FindKeepsRepresentatives ==
    uf_call'.op = "find" =>
        \A x \in DOMAIN uf_parent :
            Representative(uf_parent', x) = Representative(uf_parent, x)

\* C27: after any sequence of find and union calls, following parent
\* pointers from any known element reaches, in finitely many steps and
\* without a cycle, a representative whose parent is itself; the rank of
\* every element never decreases; and find(x) changes no element's
\* representative.
C27_UnionFindInvariants ==
    /\ [](ParentsLeadToRoot(uf_parent) /\ DOMAIN uf_rank = DOMAIN uf_parent)
    /\ [][RanksNeverDecrease /\ FindKeepsRepresentatives]_vars

\* find(x) on a tree of rank 2 holding every element: x is not the root, and
\* every element now points straight at the root
C27_Witness ==
    /\ uf_call.op = "find"
    /\ uf_call.x # uf_call.result
    /\ DOMAIN uf_parent = UFElems
    /\ \A x \in UFElems : uf_parent[x] = uf_call.result
    /\ uf_rank[uf_call.result] = 2

(* -------------------- claims: PriorityQueue truth value ---------------- *)

\* C28: after any sequence of push and pop calls, bool(pq) is True exactly
\* when the queue holds at least one item, that is when is_empty() is False
\* and len(pq) > 0.
C28_TruthValueAgreesWithContents ==
    PQBool(pq_data) <=> (~PQIsEmpty(pq_data) /\ PQLen(pq_data) > 0)

\* is_empty() and len(pq) agree with each other on every queue
PQEmptyAgreesWithLen == PQIsEmpty(pq_data) <=> PQLen(pq_data) = 0

\* bool(pq) is False whatever the queue holds
PQBoolAlwaysFalse == ~PQBool(pq_data)

\* a queue that holds an item after a push
PQHoldsAnItem == pq_call.op = "push" /\ PQLen(pq_data) > 0
====
